---- MODULE Spec2Model ----
(***************************************************************************)
(* A model of the block-production core of the node: the block validity    *)
(* predicate (Block::valid, Block::valid_genesis), block production        *)
(* (Block::mine, Block::genesis) and the chain those build; of the         *)
(* left-right mempool with its writer and its readers; and of the miner    *)
(* election actor.                                                         *)
(***************************************************************************)
EXTENDS Integers, Sequences, FiniteSets, TLC

VARIABLES
    pc,             \* position of the driver of the operation under study
    block,          \* the proposed block (self of valid / valid_genesis)
    item,           \* the previous block (item of valid, last_block of mine)
    network_state,  \* dependant_one of valid, network_state of mine
    reward_state,   \* dependant_two of valid, reward_state of mine
    result,         \* what the last validity check returned
    now,            \* the clock reading BlockHeader::new takes in mine
    mined,          \* what mine returned: None or Some(block)
    input,          \* the remaining arguments of a pending call of mine
    chain,          \* the accepted chain, genesis first
    lrdb,           \* the LeftRightMemPoolDB: both copies, the oplog, the handles
    readers,        \* per reader thread: the copy it is inside and what it cloned
    published,      \* the store after each publish so far, oldest first
    last_added,     \* per txn_id: the txn its last operation added, if it was an add
    claim_store,    \* the claims the election reads, in iteration order
    election_results, \* the BTreeMap elect_miner collected, or what elect_quorum returned
    events,         \* what the election actor sent on events_tx
    actor,          \* the election the ElectionModule is instantiated for
    sync_jobs,      \* the jobs sent on the sync channel and not yet received
    sync_jobs_outputs, \* the results sent on sync_jobs_outputs_sender, oldest first
    async_jobs,     \* the jobs sent on the async channel and not yet received
    async_jobs_outputs, \* the results sent on async_jobs_outputs_sender, oldest first
    local,          \* the locals of the operation in progress
    handled,        \* per job received so far: the job and what its handling computed
    dkg_engines     \* per node index: the DkgState of the node's DkgEngine

mempoolVars == <<lrdb, readers, published, last_added>>

electionVars == <<claim_store, election_results, events, actor>>

serviceVars ==
    <<sync_jobs, sync_jobs_outputs, async_jobs, async_jobs_outputs, local, handled, dkg_engines>>

vars ==
    <<pc, block, item, network_state, reward_state, result, now, mined, input, chain,
      lrdb, readers, published, last_added, claim_store, election_results, events, actor,
      sync_jobs, sync_jobs_outputs, async_jobs, async_jobs_outputs, local, handled, dkg_engines>>

(* The parts of the state a specification leaves out stay empty. *)
NoBlocks ==
    /\ block = <<>> /\ item = <<>> /\ network_state = <<>> /\ reward_state = <<>>
    /\ mined = <<>> /\ chain = <<>>

NoMempool == lrdb = <<>> /\ readers = <<>> /\ published = <<>> /\ last_added = <<>>

NoElection == claim_store = <<>> /\ election_results = <<>> /\ events = <<>> /\ actor = <<>>

NoServices ==
    /\ sync_jobs = <<>> /\ sync_jobs_outputs = <<>> /\ local = <<>> /\ handled = <<>>
    /\ async_jobs = <<>> /\ async_jobs_outputs = <<>>
    /\ dkg_engines = <<>>

----------------------------------------------------------------------------
(* Bounds of the model. *)

MaxHeight == 2          \* header heights range over 0..MaxHeight
MaxValidators == 5      \* a txn has at most this many validators
MaxChain == 3           \* the chain is grown to at most this many blocks

MaxClock == 2000000000  \* the clock is read up to this many nanoseconds
MaxTxns == 2            \* a block carries at most this many txns
MaxPublishes == 3       \* the mempool writer makes at most this many calls
MaxClaims == 3          \* the claim store holds at most this many claims
MaxJobs == 2            \* a producer sends at most this many jobs to the scheduler

(* Time units, block.rs:18-21. *)
NANO == 1
MICRO == NANO * 1000
MILLI == MICRO * 1000
SECOND == MILLI * 1000

(* VALIDATOR_THRESHOLD = 0.60, block.rs:23, as a number of hundredths. *)
VALIDATOR_THRESHOLD == 60

----------------------------------------------------------------------------
(* Option<T>: None is the empty sequence, Some(v) the one-element one. *)

None == <<>>
Some(v) == <<v>>
IsSome(o) == o # None
Unwrap(o) == o[1]

(* SHA-256 as an ideal hash: a symbolic, injective digest of its input. *)
digest_bytes(s) == "H(" \o s \o ")"

Heights == 0..MaxHeight
Nonces == {0, 1}
Categories == {"Flake", "Grain"}

get_amount(reward) == reward.amount

(* The rewards a header announces for the next block. *)
PrevRewards == { [category |-> "Flake", amount |-> 1], [category |-> "Grain", amount |-> 2] }

(* RewardState: the categories it still accepts. *)
RewardStates == [accepts : SUBSET Categories]

valid_reward(rs, category) == category \in rs.accepts

(* Claims: pubkey, hash, validity of the claim itself, and the pointer it  *)
(* computes per nonce (none when it has no pointer for the nonce).         *)
Claims ==
    { [pubkey |-> "pk1", hash |-> "c1", claim_ok |-> TRUE,
       pointers |-> (0 :> Some(1) @@ 1 :> Some(2))],
      [pubkey |-> "pk2", hash |-> "c2", claim_ok |-> TRUE,
       pointers |-> (0 :> Some(2) @@ 1 :> None)],
      [pubkey |-> "pk3", hash |-> "c1", claim_ok |-> FALSE,
       pointers |-> (0 :> Some(2) @@ 1 :> Some(1))],
      [pubkey |-> "pk4", hash |-> "c2", claim_ok |-> FALSE,
       pointers |-> (0 :> None @@ 1 :> Some(1))] }

get_pointer(claim, nonce) == claim.pointers[nonce]

claim_valid(claim) == claim.claim_ok

(* NetworkState: its lowest-pointer record, kept for at most one nonce,    *)
(* and the digest of its contents.                                         *)
NetworkStates ==
    [lowest : {None} \cup {Some(lp) : lp \in [nonce : Nonces, hash : {"c1", "c2"},
                                               pointers : {1, 2}]},
     state_hash : {"s0", "s1"}]

get_lowest_pointer(ns, nonce) ==
    IF IsSome(ns.lowest) /\ Unwrap(ns.lowest).nonce = nonce
    THEN Some(<<Unwrap(ns.lowest).hash, Unwrap(ns.lowest).pointers>>)
    ELSE None

Hashes == {"h0", "h1"}

(* A header and a block; the fields no operation of the model reads are    *)
(* left out.                                                               *)
Header(bh, bn, nbn, lh, br, nbr, cl, th, nh, ts, sig) ==
    [block_height |-> bh, block_nonce |-> bn, next_block_nonce |-> nbn,
     last_hash |-> lh, block_reward |-> br, next_block_reward |-> nbr,
     claim |-> cl, txn_hash |-> th, neighbors_hash |-> nh,
     timestamp |-> ts, signature |-> sig]

Block(hd, nb, ht, tx, cl, hs) ==
    [header |-> hd, neighbors |-> nb, height |-> ht, txns |-> tx,
     claims |-> cl, hash |-> hs]

(* The digest of no txn at all. *)
EmptyTxnHash == digest_bytes("")

----------------------------------------------------------------------------
(* Block::valid, block.rs:190-277.  The result is "ok" or the name of the  *)
(* InvalidBlockErrorReason.  Each check of the predicate is a definition   *)
(* that is TRUE when the check fails.                                      *)

out_of_sequence(self, it) ==
    self.header.block_height > it.header.block_height + 1

(* not_tallest_chain with the equal-height case forgotten. *)
not_tallest_chain_strict(self, it) ==
    self.header.block_height < it.header.block_height

not_tallest_chain(self, it) ==
    \/ self.header.block_height < it.header.block_height
    \/ self.header.block_height = it.header.block_height

(* reward_amount_differs comparing against the previous block's own reward. *)
reward_amount_differs_own(self, it) ==
    get_amount(self.header.block_reward) # get_amount(it.header.block_reward)

(* invalid_last_hash comparing against the previous header's last_hash. *)
invalid_last_hash_header(self, it) ==
    self.header.last_hash # it.header.last_hash

(* invalid_block_nonce comparing against the previous block's own nonce. *)
invalid_block_nonce_own(self, it) ==
    self.header.block_nonce # it.header.block_nonce

invalid_block_nonce(self, it) ==
    self.header.block_nonce # it.header.next_block_nonce

reward_category_differs(self, it) ==
    self.header.block_reward.category # it.header.next_block_reward.category

reward_amount_differs(self, it) ==
    get_amount(self.header.block_reward) # get_amount(it.header.next_block_reward)

invalid_claim_pointers(self, dependant_one) ==
    LET lowest == get_lowest_pointer(dependant_one, self.header.block_nonce)
        claim_pointer == get_pointer(self.header.claim, self.header.block_nonce)
    IN  IF IsSome(lowest)
        THEN IF Unwrap(lowest)[1] = self.header.claim.hash
             THEN IF IsSome(claim_pointer)
                  THEN Unwrap(lowest)[2] # Unwrap(claim_pointer)
                  ELSE TRUE
             ELSE TRUE
        ELSE FALSE

invalid_reward_category(self, dependant_two) ==
    ~valid_reward(dependant_two, self.header.block_reward.category)

invalid_next_reward_category(self, dependant_two) ==
    ~valid_reward(dependant_two, self.header.next_block_reward.category)

invalid_last_hash(self, it) ==
    self.header.last_hash # it.hash

invalid_claim(self) ==
    ~claim_valid(self.header.claim)

(* valid with the last-hash check moved before the claim-pointer check. *)
valid_reordered(self, it, dependant_one, dependant_two) ==
    IF out_of_sequence(self, it) THEN "BlockOutOfSequence"
    ELSE IF not_tallest_chain(self, it) THEN "NotTallestChain"
    ELSE IF invalid_block_nonce(self, it) THEN "InvalidBlockNonce"
    ELSE IF reward_category_differs(self, it) THEN "InvalidBlockReward"
    ELSE IF reward_amount_differs(self, it) THEN "InvalidBlockReward"
    ELSE IF invalid_last_hash(self, it) THEN "InvalidLastHash"
    ELSE IF invalid_claim_pointers(self, dependant_one) THEN "InvalidClaimPointers"
    ELSE IF invalid_reward_category(self, dependant_two) THEN "InvalidBlockReward"
    ELSE IF invalid_next_reward_category(self, dependant_two) THEN "InvalidNextBlockReward"
    ELSE IF invalid_claim(self) THEN "InvalidClaim"
    ELSE "ok"

valid(self, it, dependant_one, dependant_two) ==
    IF out_of_sequence(self, it) THEN "BlockOutOfSequence"
    ELSE IF not_tallest_chain(self, it) THEN "NotTallestChain"
    ELSE IF invalid_block_nonce(self, it) THEN "InvalidBlockNonce"
    ELSE IF reward_category_differs(self, it) THEN "InvalidBlockReward"
    ELSE IF reward_amount_differs(self, it) THEN "InvalidBlockReward"
    ELSE IF invalid_claim_pointers(self, dependant_one) THEN "InvalidClaimPointers"
    ELSE IF invalid_reward_category(self, dependant_two) THEN "InvalidBlockReward"
    ELSE IF invalid_next_reward_category(self, dependant_two) THEN "InvalidNextBlockReward"
    ELSE IF invalid_last_hash(self, it) THEN "InvalidLastHash"
    ELSE IF invalid_claim(self) THEN "InvalidClaim"
    ELSE "ok"

----------------------------------------------------------------------------
(* Block::valid_genesis, block.rs:279-347.                                 *)

genesis_last_hash == digest_bytes("Genesis_Last_Hash")

genesis_state_hash ==
    digest_bytes(genesis_last_hash \o "," \o digest_bytes("Genesis_State_Hash"))

(* BlockHeader::verify: the signature of the header checks out. *)
verify(header) == header.signature = "sig_ok"

(* txn.validators.iter().filter(|(_, &valid)| valid).count(), the          *)
(* validators mapping being a sequence of votes in the model.              *)
RECURSIVE n_valid(_)
n_valid(validators) ==
    IF validators = <<>> THEN 0
    ELSE (IF Head(validators) THEN 1 ELSE 0) + n_valid(Tail(validators))

(* below_threshold with the boundary included: a ratio of exactly 0.60 is  *)
(* taken to be too low.                                                    *)
below_threshold_inclusive(validators) ==
    IF Len(validators) = 0
    THEN FALSE
    ELSE n_valid(validators) * 100 <= VALIDATOR_THRESHOLD * Len(validators)

(* below_threshold that takes the ratio of a txn with no validator to be   *)
(* 0.0.                                                                    *)
below_threshold_zero_of_none(validators) ==
    IF Len(validators) = 0
    THEN TRUE
    ELSE n_valid(validators) * 100 < VALIDATOR_THRESHOLD * Len(validators)

(* (n_valid as f64 / txn.validators.len() as f64) < VALIDATOR_THRESHOLD.   *)
(* With no validator the quotient is 0.0 / 0.0 = NaN and every comparison  *)
(* with NaN is false.  Otherwise the quotient is the double nearest to     *)
(* n / len: it is the double 0.60 itself when n / len = 3 / 5, and any     *)
(* other n / len is further from 3 / 5 than the rounding error, so the     *)
(* comparison of doubles agrees with the comparison of the fractions.      *)
below_threshold(validators) ==
    IF Len(validators) = 0
    THEN FALSE
    ELSE n_valid(validators) * 100 < VALIDATOR_THRESHOLD * Len(validators)

(* The for_each over self.txns, block.rs:332-338: FALSE once a txn is      *)
(* below the threshold.                                                    *)
RECURSIVE valid_data(_)
valid_data(txns) ==
    IF txns = <<>> THEN TRUE
    ELSE ~below_threshold(Head(txns).validators) /\ valid_data(Tail(txns))

(* valid_genesis with the last-hash check made before the reward checks. *)
valid_genesis_reordered(self, dependant_two) ==
    IF self.header.block_height # 0 THEN "InvalidBlockHeight"
    ELSE IF self.header.last_hash # genesis_last_hash THEN "InvalidLastHash"
    ELSE IF ~valid_reward(dependant_two, self.header.block_reward.category)
    THEN "InvalidBlockReward"
    ELSE IF ~valid_reward(dependant_two, self.header.next_block_reward.category)
    THEN "InvalidNextBlockReward"
    ELSE IF self.hash # genesis_state_hash THEN "InvalidStateHash"
    ELSE IF ~claim_valid(self.header.claim) THEN "InvalidClaim"
    ELSE IF ~verify(self.header) THEN "InvalidBlockSignature"
    ELSE IF ~valid_data(self.txns) THEN "InvalidTxns"
    ELSE "ok"

valid_genesis(self, dependant_two) ==
    IF self.header.block_height # 0 THEN "InvalidBlockHeight"
    ELSE IF ~valid_reward(dependant_two, self.header.block_reward.category)
    THEN "InvalidBlockReward"
    ELSE IF ~valid_reward(dependant_two, self.header.next_block_reward.category)
    THEN "InvalidNextBlockReward"
    ELSE IF self.header.last_hash # genesis_last_hash THEN "InvalidLastHash"
    ELSE IF self.hash # genesis_state_hash THEN "InvalidStateHash"
    ELSE IF ~claim_valid(self.header.claim) THEN "InvalidClaim"
    ELSE IF ~verify(self.header) THEN "InvalidBlockSignature"
    ELSE IF ~valid_data(self.txns) THEN "InvalidTxns"
    ELSE "ok"

----------------------------------------------------------------------------
(* SpecGenesis: valid_genesis as a function of the block and the reward    *)
(* state.  Init draws a block whose header fields vary freely and which    *)
(* carries at most one txn with any votes of up to MaxValidators           *)
(* validators, or a block with a faultless header and up to MaxTxns txns   *)
(* with votes on either side of the threshold.                             *)

RECURSIVE SeqsUpTo(_, _)
SeqsUpTo(S, n) ==
    IF n = 0 THEN {<<>>}
    ELSE LET shorter == SeqsUpTo(S, n - 1)
         IN  shorter \cup { Append(q, x) : q \in shorter, x \in S }

Txn(id, validators) == [txn_id |-> id, validators |-> validators]

(* Ordered mappings txn_id -> Txn of at most n entries: sequences of txns, *)
(* the i-th inserted under the i-th id.                                    *)
TxnMaps(votes, n) ==
    UNION { { [i \in 1..k |-> Txn(<<"t1", "t2", "t3">>[i], vs[i])] : vs \in [1..k -> votes] } :
            k \in 0..n }

(* Votes on either side of the threshold, for the blocks of several txns. *)
VoteSamples ==
    { <<>>, <<TRUE>>, <<FALSE>>, <<TRUE, FALSE, FALSE>>, <<TRUE, TRUE, FALSE>>,
      <<TRUE, TRUE, TRUE, FALSE, FALSE>>, <<TRUE, TRUE, FALSE, FALSE, FALSE>> }

GenesisHeaders ==
    { Header(bh, 0, 0, lh, [category |-> bc, amount |-> 1],
             [category |-> nc, amount |-> 1], cl, EmptyTxnHash, None, 0, sig) :
        bh \in Heights, lh \in {genesis_last_hash, "h0"},
        bc \in Categories, nc \in Categories, cl \in Claims,
        sig \in {"sig_ok", "sig_bad"} }

GoodGenesisHeaders ==
    { h \in GenesisHeaders :
        /\ h.block_height = 0
        /\ h.last_hash = genesis_last_hash
        /\ claim_valid(h.claim)
        /\ verify(h) }

InitGenesis ==
    /\ NoMempool /\ NoElection /\ NoServices
    /\ pc = "valid_genesis"
    /\ \/ \E h \in GenesisHeaders, tx \in TxnMaps(SeqsUpTo(BOOLEAN, MaxValidators), 1),
            hs \in {genesis_state_hash, "h0"} :
            block = Block(h, None, 0, tx, <<>>, hs)
       \/ \E h \in GoodGenesisHeaders, tx \in TxnMaps(VoteSamples, MaxTxns) :
            block = Block(h, None, 0, tx, <<>>, genesis_state_hash)
    /\ reward_state \in RewardStates
    /\ item = None
    /\ network_state = None
    /\ result = "none"
    /\ now = 0
    /\ mined = None
    /\ input = None
    /\ chain = <<>>

ValidGenesis ==
    /\ pc = "valid_genesis"
    /\ result' = valid_genesis(block, reward_state)
    /\ pc' = "done"
    /\ UNCHANGED <<block, item, network_state, reward_state, now, mined, input, chain>>
    /\ UNCHANGED <<mempoolVars, electionVars, serviceVars>>

NextGenesis == ValidGenesis

SpecGenesis == InitGenesis /\ [][NextGenesis]_vars

----------------------------------------------------------------------------
(* Block::genesis and Block::mine, block.rs:43-147.  What the callee reads *)
(* from its surroundings (the clock, the random generator, the reward      *)
(* schedule) is passed in as env.                                          *)

(* BlockHeader::genesis(nonce, reward_state, claim, secret_key). *)
BlockHeader_genesis(nonce, rs, claim, secret_key, env) ==
    Header(0, nonce, env.next_block_nonce, digest_bytes("Genesis_Last_Hash"),
           [category |-> "Genesis", amount |-> 1], env.next_block_reward, claim,
           digest_bytes("Genesis_Txn_Hash"), None, env.timestamp,
           IF secret_key = claim.pubkey THEN "sig_ok" ELSE "sig_bad")

(* genesis with the claims mapping keyed by the claim's hash. *)
genesis_keyed_by_hash(rs, claim, secret_key, env) ==
    LET header == BlockHeader_genesis(0, rs, claim, secret_key, env)
        state_hash ==
            digest_bytes(header.last_hash \o "," \o digest_bytes("Genesis_State_Hash"))
        claims == << <<claim.hash, claim>> >>
    IN  Some(Block(header, None, 0, <<>>, claims, state_hash))

genesis(rs, claim, secret_key, env) ==
    LET header == BlockHeader_genesis(0, rs, claim, secret_key, env)
        state_hash ==
            digest_bytes(header.last_hash \o "," \o digest_bytes("Genesis_State_Hash"))
        claims == << <<claim.pubkey, claim>> >>
    IN  Some(Block(header, None, 0, <<>>, claims, state_hash))

(* Txn::as_bytes and BlockHeader::as_bytes: the serialised record. *)
txn_as_bytes(txn) == "txn:" \o txn.txn_id \o ";"
header_as_bytes(header) == "hdr:" \o header.last_hash \o ";"

(* txns.iter().for_each(|(_, v)| txn_vec.extend(v.as_bytes())) *)
RECURSIVE txn_vec(_)
txn_vec(txns) ==
    IF txns = <<>> THEN ""
    ELSE txn_as_bytes(Head(txns)) \o txn_vec(Tail(txns))

(* neighbors.iter().for_each(|v| neighbors_vec.extend(v.as_bytes())) *)
RECURSIVE neighbors_vec(_)
neighbors_vec(neighbors) ==
    IF neighbors = <<>> THEN ""
    ELSE header_as_bytes(Head(neighbors)) \o neighbors_vec(Tail(neighbors))

(* block.rs:90-96 *)
txn_hash_of(txns) == digest_bytes(txn_vec(txns))

(* block.rs:98-108 *)
neighbors_hash_of(neighbors) ==
    IF IsSome(neighbors)
    THEN Some(digest_bytes(neighbors_vec(Unwrap(neighbors))))
    ELSE None

(* BlockHeader::new(last_block, reward_state, claim, txn_hash,             *)
(* claim_map_hash, neighbors_hash, signature): the header that continues   *)
(* last_block.                                                             *)
BlockHeader_new(last_block, rs, claim, txn_hash, claim_map_hash, neighbors_hash, signature, env) ==
    Header(last_block.header.block_height + 1, last_block.header.next_block_nonce,
           env.next_block_nonce, last_block.hash, last_block.header.next_block_reward,
           env.next_block_reward, claim, txn_hash, neighbors_hash, env.timestamp,
           signature)

(* NetworkState::hash(txns, reward): the state folded with the txns and    *)
(* the block reward.                                                       *)
NetworkState_hash(ns, txns, reward) ==
    digest_bytes(ns.state_hash \o "," \o txn_vec(txns) \o ","
                 \o reward.category)

(* u128::checked_sub *)
checked_sub(a, b) == IF a >= b THEN Some(a - b) ELSE None

(* interval_too_short measuring the interval in milliseconds. *)
interval_too_short_milli(header, last_block) ==
    LET time == checked_sub(header.timestamp, last_block.header.timestamp)
    IN  IF IsSome(time) THEN (Unwrap(time) \div MILLI) < 1 ELSE TRUE

(* block.rs:120-126 *)
interval_too_short(header, last_block) ==
    LET time == checked_sub(header.timestamp, last_block.header.timestamp)
    IN  IF IsSome(time) THEN (Unwrap(time) \div SECOND) < 1 ELSE TRUE

(* next_height taking the header's height of the last block. *)
next_height_of_header(last_block) == last_block.header.block_height + 1

(* block.rs:128 *)
next_height(last_block) == last_block.height + 1

mine(claim, last_block, txns, claims, claim_map_hash, rs, ns, neighbors, abandoned_claim, signature, env) ==
    LET txn_hash == txn_hash_of(txns)
        neighbors_hash == neighbors_hash_of(neighbors)
        header == BlockHeader_new(last_block, rs, claim, txn_hash, claim_map_hash,
                                  neighbors_hash, signature, env)
    IN  IF interval_too_short(header, last_block)
        THEN None
        ELSE Some(Block(header, neighbors, next_height(last_block), txns, claims,
                        NetworkState_hash(ns, txns, header.block_reward)))

----------------------------------------------------------------------------
(* SpecMine: mine as a function of the last block, the claim, the txns and *)
(* the clock.                                                              *)

LastBlocks ==
    { Block(Header(bh, 0, nbn, "h1", nbr, nbr, CHOOSE c \in Claims : c.claim_ok,
                   EmptyTxnHash, None, ts, "sig_ok"),
            None, ht, <<>>, <<>>, hs) :
        bh \in Heights, ht \in Heights, nbn \in Nonces, nbr \in PrevRewards,
        ts \in {0, 1, SECOND}, hs \in Hashes }

Envs ==
    [timestamp : {0, 1, SECOND \div 2, SECOND - 1, SECOND, SECOND + 1, 2 * SECOND - 1, 2 * SECOND},
     next_block_nonce : Nonces, next_block_reward : PrevRewards]

(* The txns handed to mine: none, one, or two in either insertion order. *)
MineTxns ==
    { <<>>, <<Txn("t1", <<TRUE>>)>>,
      <<Txn("t1", <<TRUE>>), Txn("t2", <<TRUE, TRUE>>)>>,
      <<Txn("t2", <<TRUE, TRUE>>), Txn("t1", <<TRUE>>)>> }

InitMine ==
    /\ NoMempool /\ NoElection /\ NoServices
    /\ pc = "mine"
    /\ item \in LastBlocks
    /\ input \in [claim : Claims, txns : MineTxns, neighbors : {None, Some(<<>>)}, env : Envs]
    /\ now = input.env.timestamp
    /\ network_state \in { ns \in NetworkStates : ns.lowest = None }
    /\ reward_state = [accepts |-> Categories]
    /\ block = None
    /\ result = "none"
    /\ mined = None
    /\ chain = <<>>

Mine ==
    /\ pc = "mine"
    /\ mined' = mine(input.claim, item, input.txns, <<>>, None, reward_state,
                     network_state, input.neighbors, None, "sig_ok", input.env)
    /\ pc' = "done"
    /\ UNCHANGED <<block, item, network_state, reward_state, result, now, input, chain>>
    /\ UNCHANGED <<mempoolVars, electionVars, serviceVars>>

NextMine == Mine

SpecMine == InitMine /\ [][NextMine]_vars

----------------------------------------------------------------------------
(* Block::as_bytes and Block::from_bytes, block.rs:149-165.  The bytes are *)
(* the JSON document serde_json writes: an object is the sequence of its   *)
(* <<key, value>> members in the order written; what an Option holds is    *)
(* null or the value under its JSON type; a number, string or boolean of   *)
(* another field is itself.                                                *)

(* to_string writing the two mappings in the order of their keys. *)
as_bytes_sorted_keys(self) ==
    LET null == [null |-> TRUE]
        object(r, keys) == [i \in 1..Len(keys) |-> <<keys[i], r[keys[i]]>>]
        claim_value(c) == object(c, <<"pubkey", "hash", "claim_ok", "pointers">>)
        reward_value(r) == object(r, <<"category", "amount">>)
        header_value(h) ==
            object([h EXCEPT !.claim = claim_value(@),
                             !.block_reward = reward_value(@),
                             !.next_block_reward = reward_value(@),
                             !.neighbors_hash = IF @ = None THEN null
                                                ELSE [string |-> Unwrap(@)]],
                   <<"block_height", "block_nonce", "next_block_nonce", "last_hash",
                     "block_reward", "next_block_reward", "claim", "txn_hash",
                     "neighbors_hash", "timestamp", "signature">>)
        order == <<"t1", "t2", "t3", "pk1", "pk2", "pk3", "pk4">>
        rank(k) == CHOOSE i \in 1..Len(order) : order[i] = k
        sorted(members) ==
            [i \in 1..Len(members) |->
                CHOOSE m \in { members[j] : j \in 1..Len(members) } :
                    Cardinality({ j \in 1..Len(members) : rank(members[j][1]) < rank(m[1]) })
                        = i - 1]
    IN  object([header |-> header_value(self.header),
                neighbors |-> IF self.neighbors = None THEN null
                              ELSE [array |-> [i \in 1..Len(Unwrap(self.neighbors)) |->
                                        header_value(Unwrap(self.neighbors)[i])]],
                height |-> self.height,
                txns |-> sorted([i \in 1..Len(self.txns) |->
                            <<self.txns[i].txn_id,
                              object(self.txns[i], <<"txn_id", "validators">>)>>]),
                claims |-> sorted([i \in 1..Len(self.claims) |->
                            <<self.claims[i][1], claim_value(self.claims[i][2])>>]),
                hash |-> self.hash],
               <<"header", "neighbors", "height", "txns", "claims", "hash">>)

(* as_bytes: the bytes of to_string, every field in the order of the       *)
(* struct, a mapping in its iteration order.                               *)
as_bytes(self) ==
    LET null == [null |-> TRUE]
        object(r, keys) == [i \in 1..Len(keys) |-> <<keys[i], r[keys[i]]>>]
        claim_value(c) == object(c, <<"pubkey", "hash", "claim_ok", "pointers">>)
        reward_value(r) == object(r, <<"category", "amount">>)
        header_value(h) ==
            object([h EXCEPT !.claim = claim_value(@),
                             !.block_reward = reward_value(@),
                             !.next_block_reward = reward_value(@),
                             !.neighbors_hash = IF @ = None THEN null
                                                ELSE [string |-> Unwrap(@)]],
                   <<"block_height", "block_nonce", "next_block_nonce", "last_hash",
                     "block_reward", "next_block_reward", "claim", "txn_hash",
                     "neighbors_hash", "timestamp", "signature">>)
    IN  object([header |-> header_value(self.header),
                neighbors |-> IF self.neighbors = None THEN null
                              ELSE [array |-> [i \in 1..Len(Unwrap(self.neighbors)) |->
                                        header_value(Unwrap(self.neighbors)[i])]],
                height |-> self.height,
                txns |-> [i \in 1..Len(self.txns) |->
                            <<self.txns[i].txn_id,
                              object(self.txns[i], <<"txn_id", "validators">>)>>],
                claims |-> [i \in 1..Len(self.claims) |->
                            <<self.claims[i][1], claim_value(self.claims[i][2])>>],
                hash |-> self.hash],
               <<"header", "neighbors", "height", "txns", "claims", "hash">>)

(* from_bytes: a struct takes its fields from the members by key, an       *)
(* Option is None for null, and a mapping inserts its members in the order *)
(* read, a key read again replacing the entry and moving it to the back.   *)
from_bytes(data) ==
    LET null == [null |-> TRUE]
        field(o, key) == o[CHOOSE i \in 1..Len(o) : o[i][1] = key][2]
        struct(o) == [key \in { o[i][1] : i \in 1..Len(o) } |-> field(o, key)]
        header(o) ==
            [struct(o) EXCEPT !.claim = struct(@),
                              !.block_reward = struct(@),
                              !.next_block_reward = struct(@),
                              !.neighbors_hash = IF @ = null THEN None ELSE Some(@.string)]
        inserted(o) ==
            LET last == { i \in 1..Len(o) : \A j \in 1..Len(o) : o[j][1] = o[i][1] => j <= i }
            IN  [k \in 1..Cardinality(last) |->
                    o[CHOOSE i \in last : Cardinality({ j \in last : j < i }) = k - 1]]
    IN  [struct(data) EXCEPT
            !.header = header(@),
            !.neighbors = IF @ = null THEN None
                          ELSE Some([i \in 1..Len(@.array) |-> header(@.array[i])]),
            !.txns = [i \in 1..Len(inserted(@)) |-> struct(inserted(@)[i][2])],
            !.claims = [i \in 1..Len(inserted(@)) |->
                            <<inserted(@)[i][1], struct(inserted(@)[i][2])>>]]

(* SpecRoundTrip: a block a miner produced is sent to a peer as bytes and  *)
(* read back there.                                                        *)
InitRoundTrip ==
    /\ NoMempool /\ NoElection /\ NoServices
    /\ pc = "mined"
    /\ item \in { b \in LastBlocks : b.header.timestamp = 0 /\ b.hash = "h1" /\ b.height = 0 }
    /\ reward_state = [accepts |-> Categories]
    /\ network_state \in { ns \in NetworkStates : ns.lowest = None /\ ns.state_hash = "s0" }
    /\ \E claim \in Claims, txns \in MineTxns,
          neighbors \in {None, Some(<<>>), Some(<<item.header>>)} :
       \E claims \in { <<>>, << <<claim.pubkey, claim>> >>,
                       << <<"pk1", CHOOSE c \in Claims : c.pubkey = "pk1">>,
                          <<"pk2", CHOOSE c \in Claims : c.pubkey = "pk2">> >>,
                       << <<"pk2", CHOOSE c \in Claims : c.pubkey = "pk2">>,
                          <<"pk1", CHOOSE c \in Claims : c.pubkey = "pk1">> >> } :
        mined = mine(claim, item, txns, claims, None, reward_state, network_state,
                     neighbors, None, "sig_ok",
                     [timestamp |-> SECOND, next_block_nonce |-> 1,
                      next_block_reward |-> [category |-> "Flake", amount |-> 1]])
    /\ block = None
    /\ input = None
    /\ result = "none"
    /\ now = SECOND
    /\ chain = <<>>

(* The miner's side: block.as_bytes(). *)
AsBytes ==
    /\ pc = "mined"
    /\ input' = Some(as_bytes(Unwrap(mined)))
    /\ pc' = "sent"
    /\ UNCHANGED <<block, item, network_state, reward_state, result, now, mined, chain>>
    /\ UNCHANGED <<mempoolVars, electionVars, serviceVars>>

(* The peer's side: Block::from_bytes(data). *)
FromBytes ==
    /\ pc = "sent"
    /\ block' = from_bytes(Unwrap(input))
    /\ pc' = "received"
    /\ UNCHANGED <<item, network_state, reward_state, result, now, mined, input, chain>>
    /\ UNCHANGED <<mempoolVars, electionVars, serviceVars>>

NextRoundTrip == AsBytes \/ FromBytes

SpecRoundTrip == InitRoundTrip /\ [][NextRoundTrip]_vars

----------------------------------------------------------------------------
(* SpecBuildGenesis: genesis as a function of the reward state, the        *)
(* founder's claim, the secret key and what BlockHeader::genesis reads.    *)

InitBuildGenesis ==
    /\ NoMempool /\ NoElection /\ NoServices
    /\ pc = "genesis"
    /\ reward_state \in RewardStates
    /\ input \in [claim : Claims, secret_key : {"pk1", "pk2", "sk_other"}, env : Envs]
    /\ now = input.env.timestamp
    /\ network_state = None
    /\ block = None
    /\ item = None
    /\ result = "none"
    /\ mined = None
    /\ chain = <<>>

BuildGenesis ==
    /\ pc = "genesis"
    /\ mined' = genesis(reward_state, input.claim, input.secret_key, input.env)
    /\ pc' = "done"
    /\ UNCHANGED <<block, item, network_state, reward_state, result, now, input, chain>>
    /\ UNCHANGED <<mempoolVars, electionVars, serviceVars>>

NextBuildGenesis == BuildGenesis

SpecBuildGenesis == InitBuildGenesis /\ [][NextBuildGenesis]_vars

----------------------------------------------------------------------------
(* SpecValid: valid as a function of its four arguments.  Init draws the   *)
(* proposed block, the previous block and the two states; Valid applies    *)
(* the predicate.                                                          *)

ProposedBlocks ==
    { Block(Header(bh, bn, 0, lh, br, [category |-> nc, amount |-> 1], cl,
                   EmptyTxnHash, None, 0, "sig_ok"),
            None, bh, <<>>, <<>>, "h0") :
        bh \in Heights, bn \in Nonces, lh \in Hashes,
        br \in [category : Categories, amount : {1, 2}],
        nc \in Categories, cl \in Claims }

PrevBlocks ==
    { Block(Header(bh, 0, nbn, "h0", nbr, nbr, CHOOSE c \in Claims : c.hash = "c1" /\ c.claim_ok,
                   EmptyTxnHash, None, 0, "sig_ok"),
            None, bh, <<>>, <<>>, hs) :
        bh \in Heights, nbn \in Nonces, nbr \in PrevRewards, hs \in Hashes }

InitValid ==
    /\ NoMempool /\ NoElection /\ NoServices
    /\ pc = "valid"
    /\ block \in ProposedBlocks
    /\ item \in PrevBlocks
    /\ network_state \in { ns \in NetworkStates : ns.state_hash = "s0" }
    /\ reward_state \in RewardStates
    /\ result = "none"
    /\ now = 0
    /\ mined = None
    /\ input = None
    /\ chain = <<>>

Valid ==
    /\ pc = "valid"
    /\ result' = valid(block, item, network_state, reward_state)
    /\ pc' = "done"
    /\ UNCHANGED <<block, item, network_state, reward_state, now, mined, input, chain>>
    /\ UNCHANGED <<mempoolVars, electionVars, serviceVars>>

NextValid == Valid

SpecValid == InitValid /\ [][NextValid]_vars

----------------------------------------------------------------------------
(* Spec: the chain.  It starts from the genesis block; a block is mined on *)
(* the tip or received from a peer, then checked with valid against the    *)
(* tip and appended or rejected.                                           *)

Tip == chain[Len(chain)]

Init ==
    /\ NoMempool /\ NoElection /\ NoServices
    /\ pc = "idle"
    /\ network_state \in
          { ns \in NetworkStates :
              /\ ns.state_hash = "s0"
              /\ IsSome(ns.lowest) =>
                    Unwrap(ns.lowest).hash = "c1" /\ Unwrap(ns.lowest).pointers = 1 }
    /\ reward_state \in { rs \in RewardStates : "Flake" \in rs.accepts }
    /\ \E claim \in { c \in Claims : c.claim_ok /\ c.hash = "c1" }, nbr \in PrevRewards :
        chain = << Unwrap(genesis(reward_state, claim, claim.pubkey,
                                  [timestamp |-> 0, next_block_nonce |-> 0,
                                   next_block_reward |-> nbr])) >>
    /\ block = None
    /\ item = None
    /\ result = "none"
    /\ now = 0
    /\ mined = None
    /\ input = None

(* The miner reads the clock and mines on the tip. *)
MineBlock ==
    /\ pc = "idle"
    /\ Len(chain) < MaxChain
    /\ \E claim \in Claims, delta \in {SECOND \div 2, SECOND}, nbn \in Nonces :
        /\ delta <= MaxClock - Tip.header.timestamp
        /\ LET ts == Tip.header.timestamp + delta
               m == mine(claim, Tip, <<>>, <<>>, None, reward_state, network_state,
                         None, None, "sig_ok",
                         [timestamp |-> ts, next_block_nonce |-> nbn,
                          next_block_reward |-> [category |-> "Flake", amount |-> 1]])
           IN  /\ now' = ts
               /\ mined' = m
               /\ block' = IF IsSome(m) THEN Unwrap(m) ELSE None
               /\ pc' = IF IsSome(m) THEN "proposed" ELSE "idle"
    /\ item' = Tip
    /\ result' = "none"
    /\ UNCHANGED <<network_state, reward_state, input, chain>>
    /\ UNCHANGED <<mempoolVars, electionVars, serviceVars>>

(* The blocks a peer may send while the chain ends in tip. *)
Proposals(tip) ==
    { Block(Header(bh, bn, 1, lh, br, [category |-> "Flake", amount |-> 1], cl,
                   EmptyTxnHash, None, 0, "sig_ok"),
            None, ht, <<>>, <<>>, "h1") :
        bh \in tip.header.block_height .. tip.header.block_height + 2,
        bn \in Nonces, lh \in {tip.hash, tip.header.last_hash},
        br \in PrevRewards, cl \in Claims, ht \in {0, tip.height + 1} }

ReceiveBlock ==
    /\ pc = "idle"
    /\ Len(chain) < MaxChain
    /\ block' \in Proposals(Tip)
    /\ item' = Tip
    /\ mined' = None
    /\ result' = "none"
    /\ pc' = "proposed"
    /\ UNCHANGED <<network_state, reward_state, now, input, chain>>
    /\ UNCHANGED <<mempoolVars, electionVars, serviceVars>>

AcceptBlock ==
    /\ pc = "proposed"
    /\ valid(block, Tip, network_state, reward_state) = "ok"
    /\ result' = "ok"
    /\ chain' = Append(chain, block)
    /\ pc' = "idle"
    /\ UNCHANGED <<block, item, network_state, reward_state, now, mined, input>>
    /\ UNCHANGED <<mempoolVars, electionVars, serviceVars>>

RejectBlock ==
    /\ pc = "proposed"
    /\ valid(block, Tip, network_state, reward_state) # "ok"
    /\ result' = valid(block, Tip, network_state, reward_state)
    /\ block' = None
    /\ pc' = "idle"
    /\ UNCHANGED <<item, network_state, reward_state, now, mined, input, chain>>
    /\ UNCHANGED <<mempoolVars, electionVars, serviceVars>>

Next == MineBlock \/ ReceiveBlock \/ AcceptBlock \/ RejectBlock

Spec == Init /\ [][Next]_vars

----------------------------------------------------------------------------
(* The mempool, mempool.rs.  A store maps txn_id to TxnRecord; the         *)
(* LeftRightMemPoolDB keeps two copies of it behind a left-right write     *)
(* handle and read handle.                                                 *)

(* Txn::to_string and Txn::from_string: the serialised txn and its parse. *)
Txn_to_string(txn) ==
    LET votes[i \in 0..Len(txn.validators)] ==
            IF i = 0 THEN ""
            ELSE votes[i - 1] \o (IF txn.validators[i] THEN "1" ELSE "0")
    IN  "{id:" \o txn.txn_id \o ",validators:" \o votes[Len(txn.validators)] \o "}"

(* The txns handed to the mempool: two that share an id, one without id. *)
MempoolTxns ==
    { Txn("1", <<>>), Txn("1", <<TRUE>>), Txn("2", <<>>), Txn("3", <<>>), Txn("", <<>>) }

Txn_from_string(s) == CHOOSE txn \in MempoolTxns : Txn_to_string(txn) = s

TxnRecord_new(txn, timestamp) ==
    [txn_id |-> txn.txn_id, txn |-> Txn_to_string(txn), txn_added_timestamp |-> timestamp]

TxnRecord_new_by_id(txn_id) ==
    [txn_id |-> txn_id, txn |-> "", txn_added_timestamp |-> 0]

(* Absorb<MempoolOp> for Mempool: HashMap insert and remove by txn_id. *)

(* absorb_first that leaves a removed record in place. *)
absorb_first_add_only(store, op) ==
    IF op.kind = "Add"
    THEN [id \in DOMAIN store \cup {op.rec.txn_id} |->
            IF id = op.rec.txn_id THEN op.rec ELSE store[id]]
    ELSE store

absorb_first(store, op) ==
    IF op.kind = "Add"
    THEN [id \in DOMAIN store \cup {op.rec.txn_id} |->
            IF id = op.rec.txn_id THEN op.rec ELSE store[id]]
    ELSE [id \in DOMAIN store \ {op.rec.txn_id} |-> store[id]]

(* absorb_second that drops the operation. *)
absorb_second_dropped(store, op) == store

absorb_second(store, op) ==
    IF op.kind = "Add"
    THEN [id \in DOMAIN store \cup {op.rec.txn_id} |->
            IF id = op.rec.txn_id THEN op.rec ELSE store[id]]
    ELSE [id \in DOMAIN store \ {op.rec.txn_id} |-> store[id]]

(* sync_with that adds the records of first to what the copy holds. *)
sync_with_merging(self, first) ==
    [id \in DOMAIN self \cup DOMAIN first |-> IF id \in DOMAIN first THEN first[id] ELSE self[id]]

sync_with(self, first) == first

(* The left-right write handle over the two copies: db.r is the copy the   *)
(* read pointer shows, 3 - db.r the writer's copy.                         *)

(* WriteHandle::append: before the first publish no reader can be inside   *)
(* the writer's copy and the operation goes straight into it; afterwards   *)
(* it goes to the oplog.                                                   *)
append(db, op) ==
    IF db.first
    THEN [db EXCEPT !.copies[3 - db.r] = absorb_second(@, op)]
    ELSE [db EXCEPT !.oplog = Append(@, op)]

(* The oplog from entry i on, absorbed into a store: by absorb_second the  *)
(* operations the other copy has seen already, by absorb_first the rest.   *)
RECURSIVE absorb_all(_, _, _, _)
absorb_all(store, oplog, swap_index, i) ==
    IF i > Len(oplog) THEN store
    ELSE absorb_all(IF i <= swap_index THEN absorb_second(store, oplog[i])
                    ELSE absorb_first(store, oplog[i]),
                    oplog, swap_index, i + 1)

(* WriteHandle::publish, first half: the writer's copy is brought up to    *)
(* date (synced on the second publish) and the absorbed prefix of the      *)
(* oplog is dropped.                                                       *)
refresh(db) ==
    IF db.first THEN [db EXCEPT !.first = FALSE]
    ELSE LET w == 3 - db.r
             synced == IF db.second THEN sync_with(db.copies[w], db.copies[db.r])
                       ELSE db.copies[w]
         IN  [db EXCEPT !.copies[w] = absorb_all(synced, db.oplog, db.swap_index, 1),
                        !.oplog = SubSeq(db.oplog, db.swap_index + 1, Len(db.oplog)),
                        !.swap_index = Len(db.oplog) - db.swap_index,
                        !.second = FALSE]

(* WriteHandle::publish, second half: the read pointer moves to the        *)
(* writer's copy.                                                          *)
swap(db) == [db EXCEPT !.r = 3 - db.r]

publish(db) == swap(refresh(db))

(* What the calls hand to the write handle, in order: append(op), publish. *)
add_txn(txn, timestamp) ==
    << [cmd |-> "append", op |-> [kind |-> "Add", rec |-> TxnRecord_new(txn, timestamp)]],
       [cmd |-> "publish"] >>

(* add_txn_batch that publishes after every append. *)
add_txn_batch_publish_each(txn_batch, timestamp) ==
    [i \in 1..(2 * Len(txn_batch)) |->
        IF i % 2 = 1
        THEN [cmd |-> "append",
              op |-> [kind |-> "Add", rec |-> TxnRecord_new(txn_batch[(i + 1) \div 2], timestamp)]]
        ELSE [cmd |-> "publish"]]

add_txn_batch(txn_batch, timestamp) ==
    [i \in 1..Len(txn_batch) |->
        [cmd |-> "append",
         op |-> [kind |-> "Add", rec |-> TxnRecord_new(txn_batch[i], timestamp)]]]
    \o << [cmd |-> "publish"] >>

remove_txn_by_id(txn_id) ==
    << [cmd |-> "append", op |-> [kind |-> "Remove", rec |-> TxnRecord_new_by_id(txn_id)]],
       [cmd |-> "publish"] >>

remove_txn(txn, timestamp) ==
    << [cmd |-> "append", op |-> [kind |-> "Remove", rec |-> TxnRecord_new(txn, timestamp)]],
       [cmd |-> "publish"] >>

remove_txn_batch(txn_batch, timestamp) ==
    [i \in 1..Len(txn_batch) |->
        [cmd |-> "append",
         op |-> [kind |-> "Remove", rec |-> TxnRecord_new(txn_batch[i], timestamp)]]]
    \o << [cmd |-> "publish"] >>

(* A call run to its return with no reader inside the writer's copy. *)
RECURSIVE call(_, _)
call(db, cmds) ==
    IF cmds = <<>> THEN db
    ELSE call(IF Head(cmds).cmd = "append" THEN append(db, Head(cmds).op) ELSE publish(db),
              Tail(cmds))

(* LeftRightMemPoolDB::get: the copy the read handle points at, cloned. *)
get(db) == Some(db.copies[db.r])

get_txn(db, txn_id) ==
    IF txn_id # ""
    THEN IF txn_id \in DOMAIN Unwrap(get(db))
         THEN Some(Txn_from_string(Unwrap(get(db))[txn_id].txn))
         ELSE None
    ELSE None

(* size that counts the copy the writer holds. *)
size_of_write_copy(db) == Cardinality(DOMAIN db.copies[3 - db.r])

size(db) == IF IsSome(get(db)) THEN Cardinality(DOMAIN Unwrap(get(db))) ELSE 0

----------------------------------------------------------------------------
(* SpecMempool: one writer thread calling into the LeftRightMemPoolDB and  *)
(* reader threads, each with a read handle of the factory, calling get.    *)

Readers == {"r1", "r2"}

(* The HashSets handed to the batch calls, each in an iteration order:     *)
(* two of the sets come in two orders, one of them holding the two txns    *)
(* that share an id.  A store with no record is the empty function <<>>.   *)
Batches ==
    { <<Txn("1", <<>>), Txn("2", <<>>), Txn("3", <<>>)>>,
      <<Txn("2", <<>>), Txn("1", <<TRUE>>)>>, <<Txn("1", <<TRUE>>), Txn("2", <<>>)>>,
      <<Txn("1", <<>>), Txn("1", <<TRUE>>)>>, <<Txn("1", <<TRUE>>), Txn("1", <<>>)>> }

InitMempool ==
    /\ NoBlocks /\ NoElection /\ NoServices
    /\ pc = "idle"
    /\ lrdb = [copies |-> <<<<>>, <<>>>>, r |-> 1, oplog |-> <<>>,
               swap_index |-> 0, first |-> TRUE, second |-> TRUE]
    /\ readers = [rd \in Readers |->
                    [held |-> 0, began |-> 0, snapshot |-> <<>>]]
    /\ published = <<<<>>>>
    /\ last_added = [txn \in {} |-> None]
    /\ input = <<>>
    /\ result = "none"
    /\ now = 0

(* The ids a call has touched so far, each with the txn its last           *)
(* operation added, or None when that operation was a remove.              *)
Touch(txns, added) ==
    [id \in DOMAIN last_added \cup {txns[i].txn_id : i \in 1..Len(txns)} |->
        IF \E i \in 1..Len(txns) : txns[i].txn_id = id
        THEN IF added
             THEN Some(txns[CHOOSE i \in 1..Len(txns) :
                              /\ txns[i].txn_id = id
                              /\ \A j \in (i + 1)..Len(txns) : txns[j].txn_id # id])
             ELSE None
        ELSE last_added[id]]

(* The writer enters a call: the clock is read for the records.  The store *)
(* the call is to publish is the last one with the call's operations       *)
(* applied in order.                                                       *)
Enter(cmds, txns, added) ==
    /\ pc = "idle"
    /\ Len(published) <= MaxPublishes
    /\ input' = cmds
    /\ last_added' = Touch(txns, added)
    /\ LET appends == SelectSeq(cmds, LAMBDA c : c.cmd = "append")
           ops == [i \in 1..Len(appends) |-> appends[i].op]
       IN  published' = Append(published, absorb_all(published[Len(published)], ops, 0, 1))
    /\ now' = now + 1
    /\ pc' = "call"
    /\ UNCHANGED <<lrdb, readers, result>>
    /\ UNCHANGED <<block, item, network_state, reward_state, mined, chain, electionVars, serviceVars>>

(* The single calls take the txns that share an id and the one without;   *)
(* the others come in batches.                                             *)
AddTxn ==
    \E txn \in MempoolTxns :
        txn.txn_id \in {"", "1"} /\ Enter(add_txn(txn, now + 1), <<txn>>, TRUE)

AddTxnBatch == \E txn_batch \in Batches : Enter(add_txn_batch(txn_batch, now + 1), txn_batch, TRUE)

RemoveTxnById ==
    \E txn_id \in {"1", "2"} :
        Enter(remove_txn_by_id(txn_id), <<Txn(txn_id, <<>>)>>, FALSE)

RemoveTxn ==
    \E txn \in MempoolTxns :
        /\ txn.txn_id \in {"", "1"}
        /\ txn.validators = <<>>
        /\ Enter(remove_txn(txn, now + 1), <<txn>>, FALSE)

RemoveTxnBatch ==
    \E txn_batch \in Batches : Enter(remove_txn_batch(txn_batch, now + 1), txn_batch, FALSE)

(* The writer thread inside a call, up to the middle of the next publish:  *)
(* the appends before it, which no reader can see, then the wait until     *)
(* every reader has left the writer's copy, then the first half.           *)
PublishAbsorb ==
    /\ pc = "call"
    /\ \E k \in 1..Len(input) :
        /\ input[k].cmd = "publish"
        /\ \A i \in 1..(k - 1) : input[i].cmd = "append"
        /\ \A rd \in Readers : readers[rd].held # 3 - lrdb.r
        /\ lrdb' = refresh(call(lrdb, SubSeq(input, 1, k - 1)))
        /\ input' = SubSeq(input, k, Len(input))
    /\ pc' = "swap"
    /\ UNCHANGED <<readers, published, last_added, result, now>>
    /\ UNCHANGED <<block, item, network_state, reward_state, mined, chain, electionVars, serviceVars>>

(* The second half of publish; the call returns when it was its last step. *)
PublishSwap ==
    /\ pc = "swap"
    /\ lrdb' = swap(lrdb)
    /\ input' = Tail(input)
    /\ pc' = IF Tail(input) = <<>> THEN "idle" ELSE "call"
    /\ UNCHANGED <<readers, published, last_added, result, now>>
    /\ UNCHANGED <<block, item, network_state, reward_state, mined, chain, electionVars, serviceVars>>

(* The publishes that have returned, counting the construction as one. *)
Committed == IF pc = "idle" THEN Len(published) ELSE Len(published) - 1

(* ReadHandle::enter: the reader loads the read pointer. *)
ReaderEnter(rd) ==
    /\ readers[rd].held = 0
    /\ readers' = [readers EXCEPT ![rd].held = lrdb.r, ![rd].began = Committed]
    /\ UNCHANGED <<pc, lrdb, published, last_added, input, result, now>>
    /\ UNCHANGED <<block, item, network_state, reward_state, mined, chain, electionVars, serviceVars>>

(* guard.clone(): the reader copies the store it entered and leaves. *)
ReaderClone(rd) ==
    /\ readers[rd].held # 0
    /\ readers' = [readers EXCEPT ![rd].held = 0, ![rd].began = 0,
                                  ![rd].snapshot = lrdb.copies[readers[rd].held]]
    /\ UNCHANGED <<pc, lrdb, published, last_added, input, result, now>>
    /\ UNCHANGED <<block, item, network_state, reward_state, mined, chain, electionVars, serviceVars>>

NextMempool ==
    \/ AddTxn \/ AddTxnBatch \/ RemoveTxnById \/ RemoveTxn \/ RemoveTxnBatch
    \/ PublishAbsorb \/ PublishSwap
    \/ \E rd \in Readers : ReaderEnter(rd) \/ ReaderClone(rd)

SpecMempool == InitMempool /\ [][NextMempool]_vars

----------------------------------------------------------------------------
(* The miner election actor, election_module.rs.                           *)

Seeds == {0, 1}

(* The claims of the store: node id, hash, eligibility, and the election   *)
(* result the claim computes per block seed.  n1 and n2 tie on seed 0; the *)
(* lowest results belong to a claim that is no miner.                      *)
ElectionClaims ==
    { [node_id |-> "n1", hash |-> 1, eligibility |-> "Miner", results |-> <<5, 3>>],
      [node_id |-> "n2", hash |-> 2, eligibility |-> "Miner", results |-> <<5, 7>>],
      [node_id |-> "n3", hash |-> 3, eligibility |-> "Harvester", results |-> <<1, 1>>],
      [node_id |-> "n4", hash |-> 4, eligibility |-> "Miner", results |-> <<9, 2>>],
      [node_id |-> "n5", hash |-> 5, eligibility |-> "Farmer", results |-> <<5, 9>>] }

(* Claim::get_election_result(block_seed). *)
get_election_result(claim, block_seed) == claim.results[block_seed + 1]

single_miner_results(claim, block_seed) == <<get_election_result(claim, block_seed), claim>>

(* elect_miner that collects the claims of every eligibility. *)
elect_miner_unfiltered(claims, block_seed) ==
    LET at(k) == { i \in 1..Len(claims) : single_miner_results(claims[i], block_seed)[1] = k }
        keys == { single_miner_results(claims[i], block_seed)[1] : i \in 1..Len(claims) }
        last(k) == CHOOSE i \in at(k) : \A j \in at(k) : j <= i
    IN  [k \in keys |-> single_miner_results(claims[last(k)], block_seed)[2]]

(* elect_miner over the claims in the store's iteration order: the         *)
(* BTreeMap keeps, per election result, the claim collected last.          *)
elect_miner(claims, block_seed) ==
    LET miners == { i \in 1..Len(claims) : claims[i].eligibility = "Miner" }
        at(k) == { i \in miners : single_miner_results(claims[i], block_seed)[1] = k }
        keys == { single_miner_results(claims[i], block_seed)[1] : i \in miners }
        last(k) == CHOOSE i \in at(k) : \A j \in at(k) : j <= i
    IN  [k \in keys |-> single_miner_results(claims[last(k)], block_seed)[2]]

(* get_winner once iter.next() yields: the first entry of the BTreeMap. *)
get_winner(results) ==
    LET pointer_sum == CHOOSE k \in DOMAIN results : \A j \in DOMAIN results : k <= j
    IN  <<pointer_sum, results[pointer_sum]>>

(* serde_json of a BlockHeader, of which the elections read block_seed,    *)
(* next_block_seed and block_height.                                       *)
header_json(header) ==
    "{\"block_seed\":" \o ToString(header.block_seed)
        \o ",\"next_block_seed\":" \o ToString(header.next_block_seed)
        \o ",\"block_height\":" \o ToString(header.block_height) \o "}"

from_slice_defaulting(header_bytes) ==
    LET headers == { h \in [block_seed : Seeds, next_block_seed : Seeds, block_height : {0, 1}] :
                       header_json(h) = header_bytes }
    IN  IF headers = {}
        THEN Some([block_seed |-> 0, next_block_seed |-> 0, block_height |-> 0])
        ELSE Some(CHOOSE h \in headers : TRUE)

from_slice(header_bytes) ==
    LET headers == { h \in [block_seed : Seeds, next_block_seed : Seeds, block_height : {0, 1}] :
                       header_json(h) = header_bytes }
    IN  IF headers = {} THEN None ELSE Some(CHOOSE h \in headers : TRUE)

(* Quorum::new(seed, height): the builder is seeded from the seed and the  *)
(* height of the previous block; there is none to seed from at height 0.   *)
Quorum_new(seed, height) ==
    IF height > 0
    THEN [ok |-> TRUE,
          quorum |-> [quorum_seed |-> seed, election_block_height |-> height,
                      master_pubkeys |-> <<>>]]
    ELSE [ok |-> FALSE, err |-> "InvalidChildBlockError"]

(* Quorum::run_election(claims): the members are selected from the whole   *)
(* claim list; nothing can be selected from an empty list.                 *)
run_election(quorum, claims) ==
    IF claims = <<>>
    THEN [ok |-> FALSE, err |-> "InsufficientNodesError"]
    ELSE [ok |-> TRUE,
          quorum |-> [quorum EXCEPT !.master_pubkeys =
                         [i \in 1..Len(claims) |-> claims[i].node_id]]]

elect_quorum(claims, header) ==
    LET last_block_height == header.block_height
        seed == header.next_block_seed
        seeded == Quorum_new(seed, last_block_height)
    IN  IF seeded.ok /\ run_election(seeded.quorum, claims).ok
        THEN run_election(seeded.quorum, claims)
        ELSE [ok |-> FALSE, err |-> "InvalidSeedError"]

----------------------------------------------------------------------------
(* SpecElection: the actor handles one event over a claim store.  The      *)
(* actor runs on its own task, so a step of the handler that can be taken  *)
(* is taken.                                                               *)

(* The stores: up to MaxClaims claims, in every iteration order. *)
ClaimStores ==
    { cs \in SeqsUpTo(ElectionClaims, MaxClaims) :
        \A i \in 1..Len(cs), j \in 1..Len(cs) : i # j => cs[i] # cs[j] }

ElectionEvents ==
    [kind : {"MinerElection", "QuorumElection", "BlockConfirmed"},
     header_bytes :
         { header_json(h) : h \in [block_seed : Seeds, next_block_seed : Seeds,
                                    block_height : {0, 1}] } \cup {"{", ""}]

InitElection ==
    /\ NoBlocks /\ NoMempool /\ NoServices
    /\ pc = "handle"
    /\ actor \in {"MinerElection", "QuorumElection"}
    /\ claim_store \in ClaimStores
    /\ input \in ElectionEvents
    /\ election_results = <<>>
    /\ events = <<>>
    /\ result = "none"
    /\ now = 0

(* handle up to the call of get_winner; an event of another kind or with   *)
(* bytes that are no header is dropped.                                    *)
HandleMinerElection ==
    /\ pc = "handle"
    /\ actor = "MinerElection"
    /\ IF input.kind = "MinerElection" /\ IsSome(from_slice(input.header_bytes))
       THEN /\ election_results' =
                elect_miner(claim_store, Unwrap(from_slice(input.header_bytes)).block_seed)
            /\ pc' = "get_winner"
            /\ result' = result
       ELSE /\ pc' = "done"
            /\ result' = "Running"
            /\ election_results' = election_results
    /\ UNCHANGED <<claim_store, events, input, now, actor>>
    /\ UNCHANGED <<block, item, network_state, reward_state, mined, chain, mempoolVars, serviceVars>>

(* get_winner's loop: iter.next() is called. *)
GetWinnerNext ==
    /\ pc = "get_winner"
    /\ pc' = "iter_next"
    /\ UNCHANGED <<claim_store, election_results, events, input, result, now, actor>>
    /\ UNCHANGED <<block, item, network_state, reward_state, mined, chain, mempoolVars, serviceVars>>

(* iter.next() was Some: break; handle sends ElectedMiner and returns. *)
GetWinnerBreak ==
    /\ pc = "iter_next"
    /\ election_results # <<>>
    /\ events' = Append(events, [kind |-> "ElectedMiner", winner |-> get_winner(election_results)])
    /\ pc' = "done"
    /\ result' = "Running"
    /\ UNCHANGED <<claim_store, election_results, input, now, actor>>
    /\ UNCHANGED <<block, item, network_state, reward_state, mined, chain, mempoolVars, serviceVars>>

(* iter.next() was None: back to the head of the loop. *)
GetWinnerLoop ==
    /\ pc = "iter_next"
    /\ election_results = <<>>
    /\ pc' = "get_winner"
    /\ UNCHANGED <<claim_store, election_results, events, input, result, now, actor>>
    /\ UNCHANGED <<block, item, network_state, reward_state, mined, chain, mempoolVars, serviceVars>>

(* The quorum actor's handle up to the send: an event of another kind or   *)
(* with bytes that are no header is dropped.                               *)
HandleQuorumElection ==
    /\ pc = "handle"
    /\ actor = "QuorumElection"
    /\ IF input.kind = "QuorumElection" /\ IsSome(from_slice(input.header_bytes))
       THEN /\ election_results' =
                elect_quorum(claim_store, Unwrap(from_slice(input.header_bytes)))
            /\ pc' = "send_quorum"
            /\ result' = result
       ELSE /\ pc' = "done"
            /\ result' = "Running"
            /\ election_results' = election_results
    /\ UNCHANGED <<claim_store, events, input, now, actor>>
    /\ UNCHANGED <<block, item, network_state, reward_state, mined, chain, mempoolVars, serviceVars>>

(* if let Ok(quorum): ElectedQuorum is sent; handle returns. *)
SendElectedQuorum ==
    /\ pc = "send_quorum"
    /\ events' = IF election_results.ok
                 THEN Append(events, [kind |-> "ElectedQuorum",
                                      quorum |-> election_results.quorum])
                 ELSE events
    /\ pc' = "done"
    /\ result' = "Running"
    /\ UNCHANGED <<claim_store, election_results, input, now, actor>>
    /\ UNCHANGED <<block, item, network_state, reward_state, mined, chain, mempoolVars, serviceVars>>

NextElection ==
    \/ HandleMinerElection \/ GetWinnerNext \/ GetWinnerBreak \/ GetWinnerLoop
    \/ HandleQuorumElection \/ SendElectedQuorum

SpecElection == InitElection /\ [][NextElection]_vars /\ WF_vars(NextElection)

----------------------------------------------------------------------------
(* The job scheduler controller, scheduler.rs.                             *)

(* The snapshot the controller validates against: the ids of the txns that *)
(* are valid in it.  Txn "b" is invalid; txn "x" is valid but cannot be    *)
(* serialized.                                                             *)
state_snapshot == {"a", "x"}

(* ValidatorCoreManager::validate: the set of (txn, outcome) pairs, one    *)
(* per distinct txn of the batch, valid or not.                            *)
validate(snapshot, batch) ==
    { <<batch[i], IF batch[i].txn_id \in snapshot THEN "Ok" ELSE "Err">> : i \in 1..Len(batch) }

bincode_serialize(txn) ==
    IF txn.txn_id = "x" THEN None ELSE Some("bin:" \o txn.txn_id)

(* SignatureProvider::generate_partial_signature: the share of the node    *)
(* signs the bytes; a provider without a share cannot sign.                *)
generate_partial_signature(sig_provider, txn_bytes) ==
    IF sig_provider.has_share THEN Some(<<sig_provider.node, txn_bytes>>) ELSE None

(* SignatureProvider::generate_quorum_signature: more shares than the      *)
(* threshold combine.                                                      *)
generate_quorum_signature(sig_provider, sig_shares) ==
    IF Cardinality(DOMAIN sig_shares) > sig_provider.threshold
    THEN Some([shares |-> sig_shares])
    ELSE None

(* The closure of the Farm arm that stops at the first txn it cannot sign. *)
farm_votes_until_failure(job, validated_txns) ==
    LET vote(txn) ==
            IF IsSome(bincode_serialize(txn))
               /\ IsSome(generate_partial_signature(job.sig_provider,
                                                    Unwrap(bincode_serialize(txn))))
            THEN Some([farmer_id |-> job.receiver_farmer_id,
                       farmer_node_id |-> job.farmer_node_id,
                       signature |-> Unwrap(generate_partial_signature(
                                        job.sig_provider, Unwrap(bincode_serialize(txn)))),
                       txn |-> txn,
                       quorum_public_key |-> job.quorum_public_key,
                       quorum_threshold |-> 2,
                       execution_result |-> None])
            ELSE None
    IN  [i \in 1..Len(validated_txns) |->
            IF \E j \in 1..i : vote(validated_txns[j][1]) = None
            THEN None ELSE vote(validated_txns[i][1])]

(* The closure run on the pool for a Farm job: per entry of validated_txns *)
(* a vote on its txn, or None when serializing or signing failed.          *)
farm_votes(job, validated_txns) ==
    LET vote(txn) ==
            IF IsSome(bincode_serialize(txn))
               /\ IsSome(generate_partial_signature(job.sig_provider,
                                                    Unwrap(bincode_serialize(txn))))
            THEN Some([farmer_id |-> job.receiver_farmer_id,
                       farmer_node_id |-> job.farmer_node_id,
                       signature |-> Unwrap(generate_partial_signature(
                                        job.sig_provider, Unwrap(bincode_serialize(txn)))),
                       txn |-> txn,
                       quorum_public_key |-> job.quorum_public_key,
                       quorum_threshold |-> 2,
                       execution_result |-> None])
            ELSE None
    IN  [i \in 1..Len(validated_txns) |-> vote(validated_txns[i][1])]

(* The jobs a producer sends. *)
Jobs ==
    LET a == Txn("a", <<>>)
        b == Txn("b", <<>>)
        x == Txn("x", <<>>)
        v(n) == [farmer_id |-> "f1", farmer_node_id |-> n, signature |-> <<n, "bin:a">>,
                 txn |-> a, quorum_public_key |-> "qpk", quorum_threshold |-> 2,
                 execution_result |-> None]
    IN  [kind : {"Farm"},
         txns : {<<>>, <<a>>, <<b>>, <<a, b>>, <<x, a>>, <<a, a>>},
         receiver_farmer_id : {"f1"}, farmer_node_id : {1}, quorum_public_key : {"qpk"},
         sig_provider : [node : {1}, has_share : BOOLEAN, threshold : {1}],
         farmer_quorum_threshold : {1, 2}]
        \cup
        [kind : {"CertifyTxn"},
         sig_provider : [node : {1}, has_share : {TRUE}, threshold : {1}],
         votes : {<<v(1)>>, <<v(1), v(2)>>, <<v(1), v(2), v(2)>>},
         txn_id : {"a"}, farmer_quorum_key : {"qpk"}, farmer_id : {"f1"},
         txn : {a, b}]

InitScheduler ==
    /\ NoBlocks /\ NoMempool /\ NoElection
    /\ pc = "recv"
    /\ sync_jobs = <<>>
    /\ sync_jobs_outputs = <<>>
    /\ async_jobs = <<>>
    /\ async_jobs_outputs = <<>>
    /\ local = <<>>
    /\ handled = <<>>
    /\ dkg_engines = <<>>
    /\ input = <<>>
    /\ result = "none"
    /\ now = 0

(* A producer sends a job on the sync channel. *)
SendJob ==
    /\ Len(handled) + Len(sync_jobs) + Len(async_jobs) + (IF local = <<>> THEN 0 ELSE 1) < MaxJobs
    /\ \E job \in Jobs : sync_jobs' = Append(sync_jobs, job)
    /\ UNCHANGED <<pc, sync_jobs_outputs, local, handled, async_jobs, async_jobs_outputs,
                   dkg_engines, input, result, now>>
    /\ UNCHANGED <<block, item, network_state, reward_state, mined, chain,
                   mempoolVars, electionVars>>

(* A producer sends a job on the async channel: a Farm job of one txn or   *)
(* a CertifyTxn job of one vote.                                           *)
SendAsyncJob ==
    /\ Len(handled) + Len(sync_jobs) + Len(async_jobs) + (IF local = <<>> THEN 0 ELSE 1) < MaxJobs
    /\ \E job \in Jobs :
        /\ job.kind = "Farm" => (Len(job.txns) = 1 /\ job.sig_provider.has_share
                                    /\ job.farmer_quorum_threshold = 2)
        /\ job.kind = "CertifyTxn" => (Len(job.votes) = 1 /\ job.txn.txn_id = "a")
        /\ async_jobs' = Append(async_jobs, job)
    /\ UNCHANGED <<pc, sync_jobs, sync_jobs_outputs, async_jobs_outputs, local, handled,
                   dkg_engines, input, result, now>>
    /\ UNCHANGED <<block, item, network_state, reward_state, mined, chain,
                   mempoolVars, electionVars>>

(* try_recv yields a Farm job: the batch is validated, in the iteration    *)
(* order of the set validate returned, and the backpressure is sampled as  *)
(* the number of jobs waiting.                                             *)
FarmValidate ==
    /\ pc = "recv"
    /\ sync_jobs # <<>>
    /\ Head(sync_jobs).kind = "Farm"
    /\ LET job == Head(sync_jobs)
           transactions == job.txns
           outcomes == validate(state_snapshot, transactions)
       IN  \E validated_txns \in [1..Cardinality(outcomes) -> outcomes] :
               /\ \A o \in outcomes : \E i \in DOMAIN validated_txns : validated_txns[i] = o
               /\ local' = [job |-> job, validated_txns |-> validated_txns,
                            backpressure |-> Len(Tail(sync_jobs))]
    /\ sync_jobs' = Tail(sync_jobs)
    /\ pc' = "pool"
    /\ UNCHANGED <<sync_jobs_outputs, handled, async_jobs, async_jobs_outputs,
                   dkg_engines, input, result, now>>
    /\ UNCHANGED <<block, item, network_state, reward_state, mined, chain,
                   mempoolVars, electionVars>>

(* run_sync_job(..).join(): the closure runs on the pool whatever the      *)
(* backpressure was; its votes are sent when the pool job completed.       *)
FarmPool ==
    /\ pc = "pool"
    /\ \E completed \in BOOLEAN :
        LET votes_result == farm_votes(local.job, local.validated_txns)
        IN  /\ sync_jobs_outputs' =
                    IF completed
                    THEN Append(sync_jobs_outputs,
                                [kind |-> "Votes", votes |-> votes_result,
                                 threshold |-> local.job.farmer_quorum_threshold])
                    ELSE sync_jobs_outputs
            /\ handled' = Append(handled,
                    [job |-> local.job, validated_txns |-> local.validated_txns,
                     backpressure |-> local.backpressure, enqueued |-> TRUE,
                     completed |-> completed, outputs |-> Len(sync_jobs_outputs')])
    /\ local' = <<>>
    /\ pc' = "recv"
    /\ UNCHANGED <<sync_jobs, async_jobs, async_jobs_outputs, dkg_engines, input, result, now>>
    /\ UNCHANGED <<block, item, network_state, reward_state, mined, chain,
                   mempoolVars, electionVars>>

(* try_recv yields a CertifyTxn job. *)
CertifyTxn ==
    /\ pc = "recv"
    /\ sync_jobs # <<>>
    /\ Head(sync_jobs).kind = "CertifyTxn"
    /\ LET job == Head(sync_jobs)
           nodes == { job.votes[i].farmer_node_id : i \in 1..Len(job.votes) }
           last(n) == CHOOSE i \in 1..Len(job.votes) :
                        /\ job.votes[i].farmer_node_id = n
                        /\ \A j \in 1..Len(job.votes) :
                               job.votes[j].farmer_node_id = n => j <= i
           sig_shares == [n \in nodes |-> job.votes[last(n)].signature]
           validated_txns == validate(state_snapshot, <<job.txn>>)
           validated == \E x \in validated_txns : x[1].txn_id = job.txn.txn_id
           quorum_signature == generate_quorum_signature(job.sig_provider, sig_shares)
       IN  /\ sync_jobs_outputs' =
                    IF validated /\ IsSome(quorum_signature)
                    THEN Append(sync_jobs_outputs,
                                [kind |-> "CertifiedTxn", votes |-> job.votes,
                                 threshold_signature |-> Unwrap(quorum_signature),
                                 txn_id |-> job.txn_id,
                                 farmer_quorum_key |-> job.farmer_quorum_key,
                                 farmer_id |-> job.farmer_id, txn |-> job.txn])
                    ELSE sync_jobs_outputs
           /\ handled' = Append(handled,
                    [job |-> job, validated_txns |-> validated_txns,
                     outputs |-> Len(sync_jobs_outputs')])
    /\ sync_jobs' = Tail(sync_jobs)
    /\ UNCHANGED <<pc, local, async_jobs, async_jobs_outputs, dkg_engines, input, result, now>>
    /\ UNCHANGED <<block, item, network_state, reward_state, mined, chain,
                   mempoolVars, electionVars>>

(* try_recv finds the sync channel empty: the Err arm does nothing. *)
RecvEmpty ==
    /\ pc = "recv"
    /\ sync_jobs = <<>>
    /\ pc' = "loop"
    /\ UNCHANGED <<block, item, network_state, reward_state, result, now, mined, input, chain,
                   mempoolVars, electionVars, serviceVars>>

(* The loop goes round to the next try_recv on the sync channel. *)
LoopAgain ==
    /\ pc = "loop"
    /\ pc' = "recv"
    /\ UNCHANGED <<block, item, network_state, reward_state, result, now, mined, input, chain,
                   mempoolVars, electionVars, serviceVars>>

NextScheduler ==
    \/ SendJob \/ SendAsyncJob
    \/ FarmValidate \/ FarmPool \/ CertifyTxn \/ RecvEmpty \/ LoopAgain

SpecScheduler == InitScheduler /\ [][NextScheduler]_vars

(* The thread that runs execute_sync_jobs keeps running: its loop never    *)
(* returns and each of its steps completes.                                *)
SpecSchedulerLive ==
    /\ SpecScheduler
    /\ WF_vars(FarmValidate \/ FarmPool \/ CertifyTxn \/ RecvEmpty \/ LoopAgain)

----------------------------------------------------------------------------
(* A DKG session of four engines, driven as generate_dkg_engine_with_states *)
(* of dkg_engine/src/test_utils.rs drives it.                              *)

valid_threshold_config == [upper_bound |-> 4, threshold |-> 1]

(* DkgEngine::generate_sync_keygen_instance: the engine gets its SyncKeyGen *)
(* and returns PartMessageGenerated(node_idx, part); the part commits to   *)
(* what the engine drew.                                                   *)
generate_sync_keygen_instance(engine, threshold, drawn) ==
    [engine |-> [engine EXCEPT !.sync_key_gen = Some([threshold |-> threshold])],
     result |-> <<engine.idx, [author |-> engine.idx, commitment |-> drawn]>>]

(* DkgEngine::ack_partial_commitment: the Part of the sender in the store  *)
(* is handled and its Ack stored under (sender, acker); an Err without it. *)
ack_partial_commitment(engine, sender_node_idx) ==
    IF IsSome(engine.sync_key_gen) /\ sender_node_idx \in DOMAIN engine.part_message_store
    THEN [engine EXCEPT !.ack_message_store =
            (<<sender_node_idx, engine.idx>> :> engine.part_message_store[sender_node_idx]) @@ @]
    ELSE engine

(* DkgEngine::handle_ack_messages and generate_key_sets: the key set over  *)
(* the Parts that more nodes than the threshold acknowledged, and the      *)
(* engine's share of it.                                                   *)
generate_key_sets(engine) ==
    LET acks == engine.ack_message_store
        complete == { k[1] : k \in { k \in DOMAIN acks :
                        Cardinality({ j \in DOMAIN acks : j[1] = k[1] })
                            > Unwrap(engine.sync_key_gen).threshold } }
        parts == { acks[k] : k \in { k \in DOMAIN acks : k[1] \in complete } }
    IN  IF IsSome(engine.sync_key_gen) /\ Cardinality(complete) > Unwrap(engine.sync_key_gen).threshold
        THEN [engine EXCEPT !.public_key_set = Some(parts),
                            !.secret_key_share = Some([idx |-> engine.idx, parts |-> parts])]
        ELSE engine

(* generate_dkg_engines(4, NodeType::MasterNode). *)
InitDkg ==
    /\ NoBlocks /\ NoMempool /\ NoElection
    /\ sync_jobs = <<>> /\ sync_jobs_outputs = <<>> /\ handled = <<>>
    /\ async_jobs = <<>> /\ async_jobs_outputs = <<>>
    /\ pc = "generate"
    /\ dkg_engines = [i \in 0..(valid_threshold_config.upper_bound - 1) |->
                        [idx |-> i, part_message_store |-> <<>>, ack_message_store |-> <<>>,
                         public_key_set |-> None, secret_key_share |-> None,
                         sync_key_gen |-> None]]
    /\ local = <<>>
    /\ input = <<>>
    /\ result = "none"
    /\ now = 0

(* Every engine generates its SyncKeyGen instance; the Parts are collected *)
(* in part_committment_tuples.                                             *)
GenerateSyncKeygen ==
    /\ pc = "generate"
    /\ \E drawn \in [DOMAIN dkg_engines -> {0, 1}] :
        /\ dkg_engines' = [i \in DOMAIN dkg_engines |->
                generate_sync_keygen_instance(dkg_engines[i], 1, drawn[i]).engine]
        /\ input' = [k \in 1..Cardinality(DOMAIN dkg_engines) |->
                generate_sync_keygen_instance(dkg_engines[k - 1], 1, drawn[k - 1]).result]
    /\ pc' = "distribute"
    /\ UNCHANGED <<sync_jobs, sync_jobs_outputs, async_jobs, async_jobs_outputs,
                   local, handled, result, now>>
    /\ UNCHANGED <<block, item, network_state, reward_state, mined, chain,
                   mempoolVars, electionVars>>

(* The loop body that stores the next Part at every engine, its author too. *)
DistributePart_to_all ==
    /\ pc = "distribute"
    /\ input # <<>>
    /\ LET node_idx == Head(input)[1]
           part == Head(input)[2]
       IN  dkg_engines' = [i \in DOMAIN dkg_engines |->
                [dkg_engines[i] EXCEPT !.part_message_store = (node_idx :> part) @@ @]]
    /\ input' = Tail(input)
    /\ local' = IF Tail(input) = <<>> THEN [i |-> 0] ELSE local
    /\ pc' = IF Tail(input) = <<>> THEN "ack" ELSE pc
    /\ UNCHANGED <<sync_jobs, sync_jobs_outputs, async_jobs, async_jobs_outputs,
                   handled, result, now>>
    /\ UNCHANGED <<block, item, network_state, reward_state, mined, chain,
                   mempoolVars, electionVars>>

(* The loop body over part_committment_tuples: the next Part is stored at  *)
(* every engine but its author.                                            *)
DistributePart ==
    /\ pc = "distribute"
    /\ input # <<>>
    /\ LET node_idx == Head(input)[1]
           part == Head(input)[2]
       IN  dkg_engines' = [i \in DOMAIN dkg_engines |->
                IF node_idx # dkg_engines[i].idx
                THEN [dkg_engines[i] EXCEPT !.part_message_store = (node_idx :> part) @@ @]
                ELSE dkg_engines[i]]
    /\ input' = Tail(input)
    /\ local' = IF Tail(input) = <<>> THEN [i |-> 0] ELSE local
    /\ pc' = IF Tail(input) = <<>> THEN "ack" ELSE pc
    /\ UNCHANGED <<sync_jobs, sync_jobs_outputs, async_jobs, async_jobs_outputs,
                   handled, result, now>>
    /\ UNCHANGED <<block, item, network_state, reward_state, mined, chain,
                   mempoolVars, electionVars>>

(* The loop body that stores an Ack of i at every engine, whether or not   *)
(* the engine holds the Part of i.                                         *)
AckParts_unreceived ==
    /\ pc = "ack"
    /\ dkg_engines' = [n \in DOMAIN dkg_engines |->
            [dkg_engines[n] EXCEPT !.ack_message_store =
                (<<local.i, n>> :> [author |-> local.i, commitment |-> 0]) @@ @]]
    /\ local' = [i |-> local.i + 1]
    /\ pc' = IF local.i + 1 = 4 THEN "merge" ELSE pc
    /\ UNCHANGED <<sync_jobs, sync_jobs_outputs, async_jobs, async_jobs_outputs,
                   handled, input, result, now>>
    /\ UNCHANGED <<block, item, network_state, reward_state, mined, chain,
                   mempoolVars, electionVars>>

(* The loop body for i in 0..4: every engine acknowledges the Part of i. *)
AckParts ==
    /\ pc = "ack"
    /\ dkg_engines' = [n \in DOMAIN dkg_engines |->
                         ack_partial_commitment(dkg_engines[n], local.i)]
    /\ local' = [i |-> local.i + 1]
    /\ pc' = IF local.i + 1 = 4 THEN "merge" ELSE pc
    /\ UNCHANGED <<sync_jobs, sync_jobs_outputs, async_jobs, async_jobs_outputs,
                   handled, input, result, now>>
    /\ UNCHANGED <<block, item, network_state, reward_state, mined, chain,
                   mempoolVars, electionVars>>

(* new_store chains the ack stores of the four engines, a later entry      *)
(* replacing an earlier one under the same key; every engine gets it.      *)
MergeAcks ==
    /\ pc = "merge"
    /\ LET new_store == dkg_engines[3].ack_message_store @@ dkg_engines[2].ack_message_store
                            @@ dkg_engines[1].ack_message_store
                            @@ dkg_engines[0].ack_message_store
       IN  dkg_engines' = [n \in DOMAIN dkg_engines |->
                [dkg_engines[n] EXCEPT !.ack_message_store = new_store]]
    /\ pc' = "keys"
    /\ UNCHANGED <<sync_jobs, sync_jobs_outputs, async_jobs, async_jobs_outputs,
                   local, handled, input, result, now>>
    /\ UNCHANGED <<block, item, network_state, reward_state, mined, chain,
                   mempoolVars, electionVars>>

(* Every engine handles the acks and generates its key set. *)
GenerateKeySets ==
    /\ pc = "keys"
    /\ dkg_engines' = [n \in DOMAIN dkg_engines |-> generate_key_sets(dkg_engines[n])]
    /\ pc' = "done"
    /\ UNCHANGED <<sync_jobs, sync_jobs_outputs, async_jobs, async_jobs_outputs,
                   local, handled, input, result, now>>
    /\ UNCHANGED <<block, item, network_state, reward_state, mined, chain,
                   mempoolVars, electionVars>>

NextDkg == GenerateSyncKeygen \/ DistributePart \/ AckParts \/ MergeAcks \/ GenerateKeySets

SpecDkg == InitDkg /\ [][NextDkg]_vars

----------------------------------------------------------------------------
(* C1: valid classifies the proposed header height against the previous    *)
(* header height: above prev + 1 it answers BlockOutOfSequence, at or      *)
(* below prev it answers NotTallestChain, whatever the other fields are;   *)
(* it answers ok only at exactly prev + 1.                                 *)
C1_HeightBand ==
    pc = "done" =>
        /\ (block.header.block_height > item.header.block_height + 1
                => result = "BlockOutOfSequence")
        /\ (block.header.block_height <= item.header.block_height
                => result = "NotTallestChain")
        /\ (result = "ok"
                => block.header.block_height = item.header.block_height + 1)

(* A height-equal proposal, otherwise faultless, answered NotTallestChain. *)
C1_Witness ==
    /\ pc = "done"
    /\ block.header.block_height = item.header.block_height
    /\ block.header.block_nonce = item.header.next_block_nonce
    /\ block.header.block_reward = item.header.next_block_reward
    /\ block.header.last_hash = item.hash
    /\ block.header.claim.claim_ok
    /\ result = "NotTallestChain"

(* C2: a block at height prev + 1 whose block_nonce differs from the       *)
(* previous header's next_block_nonce is answered InvalidBlockNonce,       *)
(* whatever the reward, claim, last_hash and the two states are.           *)
C2_StaleNonce ==
    (/\ pc = "done"
     /\ block.header.block_height = item.header.block_height + 1
     /\ block.header.block_nonce # item.header.next_block_nonce)
        => result = "InvalidBlockNonce"

(* A stale nonce on a block whose reward, last_hash and claim are wrong too. *)
C2_Witness ==
    /\ pc = "done"
    /\ block.header.block_height = item.header.block_height + 1
    /\ block.header.block_nonce # item.header.next_block_nonce
    /\ block.header.block_nonce = item.header.block_nonce
    /\ block.header.block_reward # item.header.next_block_reward
    /\ block.header.last_hash # item.hash
    /\ ~block.header.claim.claim_ok
    /\ reward_state.accepts = {}
    /\ result = "InvalidBlockNonce"

(* The network state's lowest-pointer record at the block's nonce resolves *)
(* to the block's claim and to the pointer that claim computes.            *)
pointer_resolves(self, dependant_one) ==
    LET lowest == get_lowest_pointer(dependant_one, self.header.block_nonce)
        claim_pointer == get_pointer(self.header.claim, self.header.block_nonce)
    IN  /\ IsSome(lowest)
        /\ Unwrap(lowest)[1] = self.header.claim.hash
        /\ IsSome(claim_pointer)
        /\ Unwrap(lowest)[2] = Unwrap(claim_pointer)

(* C3: valid answers ok only if the lowest-pointer record at the block's   *)
(* nonce resolves to the block's claim and pointer; a network state with   *)
(* no record for the nonce does not resolve, and the block is rejected.    *)
C3_PointerRecordRequired ==
    (pc = "done" /\ result = "ok") => pointer_resolves(block, network_state)

(* The checks of valid in their fixed order, each with its reason and      *)
(* whether the block fails it.                                             *)
checks_in_order(self, it, dependant_one, dependant_two) ==
    << <<"BlockOutOfSequence", self.header.block_height > it.header.block_height + 1>>,
       <<"NotTallestChain", self.header.block_height <= it.header.block_height>>,
       <<"InvalidBlockNonce", self.header.block_nonce # it.header.next_block_nonce>>,
       <<"InvalidBlockReward", self.header.block_reward # it.header.next_block_reward>>,
       <<"InvalidClaimPointers", invalid_claim_pointers(self, dependant_one)>>,
       <<"InvalidBlockReward", self.header.block_reward.category \notin dependant_two.accepts>>,
       <<"InvalidNextBlockReward",
         self.header.next_block_reward.category \notin dependant_two.accepts>>,
       <<"InvalidLastHash", self.header.last_hash # it.hash>>,
       <<"InvalidClaim", ~self.header.claim.claim_ok>> >>

(* C4: valid short-circuits: the reason it answers is that of the first    *)
(* failing check in the order BlockOutOfSequence, NotTallestChain,         *)
(* InvalidBlockNonce, InvalidBlockReward (against prev), InvalidClaim-     *)
(* Pointers, InvalidBlockReward (reward state), InvalidNextBlockReward,    *)
(* InvalidLastHash, InvalidClaim; it answers ok only when no check fails.  *)
C4_FirstFailingCheck ==
    pc = "done" =>
        LET checks == checks_in_order(block, item, network_state, reward_state)
            failing == { i \in 1..Len(checks) : checks[i][2] }
        IN  IF failing = {}
            THEN result = "ok"
            ELSE /\ result # "ok"
                 /\ \E i \in failing :
                        /\ \A j \in failing : i <= j
                        /\ result = checks[i][1]

(* A block failing the claim-pointer, last-hash and claim checks at once,  *)
(* answered with the first of them.                                        *)
C4_Witness ==
    /\ pc = "done"
    /\ invalid_claim_pointers(block, network_state)
    /\ block.header.last_hash # item.hash
    /\ ~block.header.claim.claim_ok
    /\ result = "InvalidClaimPointers"

C6_MinimumInterval ==
    pc = "done" =>
        LET last == item.header.timestamp
        IN  /\ IsSome(mined) =>
                /\ Unwrap(mined).header.timestamp = now
                /\ now >= last
                /\ (now - last) \div 1000000000 >= 1
            /\ now < last => mined = None
            /\ (now >= last /\ now - last < 1000000000) => mined = None
            /\ now - last \in {500000000, 999999999} => mined = None

(* mine called 999,999,999 ns after the last block, returning None. *)
C6_Witness ==
    /\ pc = "done"
    /\ item.header.timestamp = 1
    /\ now = 1000000000
    /\ mined = None

(* C7: every block mine returns has height last_block.height + 1 and       *)
(* header.last_hash = last_block.hash.                                     *)
C7_MinedOnLastBlock ==
    (pc = "done" /\ IsSome(mined)) =>
        /\ Unwrap(mined).height = item.height + 1
        /\ Unwrap(mined).header.last_hash = item.hash

(* A block mined on a last block whose height differs from its header's    *)
(* block_height.                                                           *)
C7_Witness ==
    /\ pc = "done"
    /\ IsSome(mined)
    /\ item.height # item.header.block_height
    /\ Unwrap(mined).height = item.height + 1
    /\ Unwrap(mined).header.last_hash = item.hash

(* C8: mine then verify.  A block mined on the tip B0 with a valid claim   *)
(* that is the network state's lowest pointer at the block's nonce, under  *)
(* a reward state that accepts the block's reward categories, is answered  *)
(* ok by valid against B0 and becomes the tip; the header height and the   *)
(* hash that valid compares are the ones mine derived from B0.             *)
C8_MineThenVerify ==
    (/\ pc = "idle"
     /\ IsSome(mined)
     /\ result # "none"
     /\ Unwrap(mined).header.claim.claim_ok
     /\ pointer_resolves(Unwrap(mined), network_state)
     /\ Unwrap(mined).header.block_reward.category \in reward_state.accepts
     /\ Unwrap(mined).header.next_block_reward.category \in reward_state.accepts)
        => /\ result = "ok"
           /\ chain[Len(chain)] = Unwrap(mined)
           /\ chain[Len(chain) - 1] = item
           /\ Unwrap(mined).header.block_height = item.header.block_height + 1
           /\ Unwrap(mined).header.last_hash = item.hash

(* Two blocks mined in a row, each at least 1 SECOND after its             *)
(* predecessor, the second verified against the first.                     *)
C8_Witness ==
    /\ pc = "idle"
    /\ Len(chain) = 3
    /\ IsSome(mined)
    /\ chain[3] = Unwrap(mined)
    /\ chain[3].header.timestamp - chain[2].header.timestamp >= SECOND
    /\ chain[2].header.timestamp - chain[1].header.timestamp >= SECOND
    /\ chain[3].header.last_hash = chain[2].hash
    /\ pointer_resolves(chain[3], network_state)
    /\ result = "ok"

(* The header checks of valid_genesis in their order, each with its       *)
(* reason and whether the block fails it.                                  *)
genesis_checks_in_order(self, dependant_two) ==
    << <<"InvalidBlockHeight", self.header.block_height # 0>>,
       <<"InvalidBlockReward", self.header.block_reward.category \notin dependant_two.accepts>>,
       <<"InvalidNextBlockReward",
         self.header.next_block_reward.category \notin dependant_two.accepts>>,
       <<"InvalidLastHash", self.header.last_hash # "H(Genesis_Last_Hash)">>,
       <<"InvalidStateHash",
         self.hash # "H(H(Genesis_Last_Hash),H(Genesis_State_Hash))">>,
       <<"InvalidClaim", ~self.header.claim.claim_ok>>,
       <<"InvalidBlockSignature", self.header.signature # "sig_ok">> >>

genesis_header_faults(self, dependant_two) ==
    LET checks == genesis_checks_in_order(self, dependant_two)
    IN  { i \in 1..Len(checks) : checks[i][2] }

(* C9: valid_genesis answers ok only for a block of header height 0, with  *)
(* the literal genesis last hash and state hash, reward categories the     *)
(* reward state accepts, a valid claim and a verified header signature; a  *)
(* violation is answered with InvalidBlockHeight, InvalidBlockReward,      *)
(* InvalidNextBlockReward, InvalidLastHash, InvalidStateHash, InvalidClaim *)
(* or InvalidBlockSignature, the first failing check in that order.        *)
C9_GenesisHeaderChecks ==
    pc = "done" =>
        LET checks == genesis_checks_in_order(block, reward_state)
            failing == genesis_header_faults(block, reward_state)
        IN  IF failing = {}
            THEN result \in {"ok", "InvalidTxns"}
            ELSE \E i \in failing :
                    /\ \A j \in failing : i <= j
                    /\ result = checks[i][1]

(* A height-0 block with a foreign last hash, a foreign state hash and a   *)
(* bad signature, answered InvalidLastHash.                                *)
C9_Witness ==
    /\ pc = "done"
    /\ block.header.block_height = 0
    /\ block.header.last_hash # genesis_last_hash
    /\ block.hash # genesis_state_hash
    /\ ~verify(block.header)
    /\ result = "InvalidLastHash"

(* The number of validators of a txn that voted true. *)
approvals(txn) == Cardinality({ i \in 1..Len(txn.validators) : txn.validators[i] })

(* approvals / validators < 0.60, as a comparison of fractions. *)
ratio_below_threshold(txn) == approvals(txn) * 5 < 3 * Len(txn.validators)

(* C10: a genesis block that passes all header checks is answered          *)
(* InvalidTxns if and only if one of its txns has a fraction of validators *)
(* voting true below 0.60, and ok otherwise: 1 of 3 approving is rejected, *)
(* 2 of 3 and exactly 3 of 5 are accepted.                                 *)
C10_GenesisTxnThreshold ==
    (pc = "done" /\ genesis_header_faults(block, reward_state) = {}) =>
        /\ result = "InvalidTxns"
            <=> \E i \in 1..Len(block.txns) : ratio_below_threshold(block.txns[i])
        /\ result # "InvalidTxns" => result = "ok"
        /\ \A i \in 1..Len(block.txns) :
            LET txn == block.txns[i]
            IN  /\ (Len(txn.validators) = 3 /\ approvals(txn) = 1) => result = "InvalidTxns"
                /\ (Len(block.txns) = 1 /\ Len(txn.validators) = 3 /\ approvals(txn) = 2)
                        => result = "ok"
                /\ (Len(block.txns) = 1 /\ Len(txn.validators) = 5 /\ approvals(txn) = 3)
                        => result = "ok"

(* A genesis block with two txns, the second approved by exactly 3 of its  *)
(* 5 validators and the first by 2 of 3, accepted.                         *)
C10_Witness ==
    /\ pc = "done"
    /\ Len(block.txns) = 2
    /\ Len(block.txns[1].validators) = 3 /\ approvals(block.txns[1]) = 2
    /\ Len(block.txns[2].validators) = 5 /\ approvals(block.txns[2]) = 3
    /\ result = "ok"

(* C11: genesis returns a block with height 0, no neighbors, no txns, a    *)
(* claims mapping whose only entry is the founder's claim under its        *)
(* pubkey, and hash = H(header.last_hash "," H("Genesis_State_Hash")).     *)
C11_GenesisBlock ==
    pc = "done" =>
        /\ IsSome(mined)
        /\ LET g == Unwrap(mined)
           IN  /\ g.height = 0
               /\ g.neighbors = None
               /\ g.txns = <<>>
               /\ Len(g.claims) = 1
               /\ g.claims[1] = <<input.claim.pubkey, input.claim>>
               /\ g.hash = digest_bytes(g.header.last_hash \o "," \o
                                        digest_bytes("Genesis_State_Hash"))

C11_Witness ==
    /\ pc = "done"
    /\ IsSome(mined)
    /\ input.claim.pubkey = "pk2"
    /\ Unwrap(mined).claims = << <<"pk2", input.claim>> >>
    /\ Unwrap(mined).header.signature = "sig_bad"

(* C12: from every state the mempool reaches between calls, adding a txn   *)
(* twice leaves the same txn_ids and size as adding it once, removing it   *)
(* twice leaves the same store as removing it once, and removing an id     *)
(* that is not in the store changes nothing.  (The calls run to their      *)
(* return without waiting when no reader is inside a copy.)                *)
C12_Idempotence ==
    (pc = "idle" /\ \A rd \in Readers : readers[rd].held = 0) =>
        \A txn \in MempoolTxns :
            LET added == call(lrdb, add_txn(txn, now + 1))
                added_again == call(added, add_txn(txn, now + 2))
                removed == call(lrdb, remove_txn(txn, now + 1))
                removed_again == call(removed, remove_txn(txn, now + 2))
            IN  /\ DOMAIN Unwrap(get(added_again)) = DOMAIN Unwrap(get(added))
                /\ size(added_again) = size(added)
                /\ get(removed_again) = get(removed)
                /\ txn.txn_id \notin DOMAIN Unwrap(get(lrdb)) =>
                    /\ get(removed) = get(lrdb)
                    /\ get(call(lrdb, remove_txn_by_id(txn.txn_id))) = get(lrdb)

(* The same txn was added by two calls in a row. *)
C12_Witness ==
    /\ pc = "idle"
    /\ Len(published) = 3
    /\ DOMAIN published[2] = {"1"}
    /\ DOMAIN published[3] = {"1"}
    /\ published[2]["1"].txn = published[3]["1"].txn
    /\ published[2]["1"].txn_added_timestamp # published[3]["1"].txn_added_timestamp
    /\ Unwrap(get(lrdb)) = published[3]

(* C13: while the last operation on a txn's id is the add of that txn,     *)
(* get_txn of the id returns that txn.                                     *)
C13_RoundTrip ==
    pc = "idle" =>
        \A id \in DOMAIN last_added :
            IsSome(last_added[id]) => get_txn(lrdb, id) = last_added[id]

(* C14: size is the number of txn_ids whose last operation was an add. *)
C14_SizeCountsLiveIds ==
    pc = "idle" =>
        size(lrdb) = Cardinality({ id \in DOMAIN last_added : IsSome(last_added[id]) })

(* A batch of three was added, one removed by id, then the batch removed. *)
C14_Witness ==
    /\ pc = "idle"
    /\ Len(published) = 4
    /\ DOMAIN published[2] = {"1", "2", "3"}
    /\ DOMAIN published[3] = {"1", "3"}
    /\ DOMAIN published[4] = {}
    /\ size(lrdb) = 0
    /\ \A id \in {"1", "2", "3"} : last_added[id] = None

(* C15: the copy the read pointer shows, and every copy a reader is        *)
(* inside, is the store as some publish left it: all of the operations of  *)
(* each call so far, or none of them.                                      *)
C15_NoPartialBatch ==
    /\ lrdb.copies[lrdb.r] = published[Committed]
    /\ \A rd \in Readers :
        readers[rd].held # 0 =>
            \E k \in readers[rd].began..Committed :
                lrdb.copies[readers[rd].held] = published[k]

(* A reader is inside the shown copy while the writer's copy holds a whole *)
(* batch that is about to be swapped in.                                   *)
C15_Witness ==
    /\ pc = "swap"
    /\ \E rd \in Readers : readers[rd].held = lrdb.r
    /\ lrdb.copies[lrdb.r] = <<>>
    /\ DOMAIN lrdb.copies[3 - lrdb.r] = {"1", "2", "3"}

(* C16: the snapshot a reader takes is the store after some publish that   *)
(* is not earlier than the publish of its previous snapshot nor than the   *)
(* last publish that had returned when the reader entered.                 *)
C16_PublishOrder ==
    [][\A rd \in Readers :
        (readers[rd].held # 0 /\ readers'[rd].held = 0) =>
            \E k1 \in 1..Len(published), k2 \in 1..Len(published) :
                /\ k1 <= k2
                /\ readers[rd].began <= k2
                /\ k2 <= Committed
                /\ readers[rd].snapshot = published[k1]
                /\ readers'[rd].snapshot = published[k2]]_vars

(* One reader holds the store of the second publish, another the store of  *)
(* the third, taken while the first was already outdated.                  *)
C16_Witness ==
    /\ Len(published) = 4
    /\ pc = "idle"
    /\ readers["r1"].snapshot = published[3]
    /\ readers["r2"].snapshot = published[4]
    /\ published[3] # published[4]
    /\ published[3] # published[2]
    /\ published[4] # published[2]
    /\ published[2] # <<>>

(* The seed of the event the election actor is handling. *)
block_seed_of(event) == Unwrap(from_slice(event.header_bytes)).block_seed

(* C17: the winner the actor sends is the winner of the election over the  *)
(* same claims in every other iteration order of the store.                *)
C17_ElectionDeterministic ==
    (actor = "MinerElection" /\ events # <<>>) =>
        \A p \in [1..Len(claim_store) -> 1..Len(claim_store)] :
            (\A i, j \in 1..Len(claim_store) : i # j => p[i] # p[j]) =>
                get_winner(elect_miner([i \in 1..Len(claim_store) |-> claim_store[p[i]]],
                                       block_seed_of(input)))
                    = events[1].winner

(* C18: over a store with a Miner-eligible claim the actor sends a winner  *)
(* that is a Miner-eligible claim of the store with the least election     *)
(* result among them, sent with that result, and the same as over the      *)
(* store without the claims of other eligibility.                          *)
C18_WinnerIsLeastMiner ==
    LET miners == { claim_store[i] : i \in { i \in 1..Len(claim_store) :
                                                claim_store[i].eligibility = "Miner" } }
    IN  /\ (actor = "MinerElection" /\ events # <<>>) =>
            LET winner == events[1].winner
                seed == block_seed_of(input)
            IN  /\ Len(events) = 1
                /\ winner[2] \in miners
                /\ winner[1] = get_election_result(winner[2], seed)
                /\ \A claim \in miners : winner[1] <= get_election_result(claim, seed)
                /\ winner[1] = get_winner(elect_miner(
                        SelectSeq(claim_store, LAMBDA claim : claim.eligibility = "Miner"),
                        seed))[1]
        /\ (/\ pc = "done"
            /\ actor = "MinerElection"
            /\ input.kind = "MinerElection"
            /\ IsSome(from_slice(input.header_bytes))
            /\ miners # {}) => events # <<>>

(* A miner won although a claim of another eligibility has a lower result. *)
C18_Witness ==
    /\ pc = "done"
    /\ actor = "MinerElection"
    /\ events # <<>>
    /\ events[1].winner[2].eligibility = "Miner"
    /\ \E i \in 1..Len(claim_store) :
        /\ claim_store[i].eligibility # "Miner"
        /\ get_election_result(claim_store[i], block_seed_of(input)) < events[1].winner[1]

(* C19: every Miner-eligible claim of the store is in the ordered result,  *)
(* tied or not, and the winner has the least claim hash among the claims   *)
(* that share the least election result.                                   *)
C19_TieBrokenByClaimHash ==
    (actor = "MinerElection" /\ events # <<>>) =>
        LET seed == block_seed_of(input)
            miners == { claim_store[i] : i \in { i \in 1..Len(claim_store) :
                                                    claim_store[i].eligibility = "Miner" } }
            least == { claim \in miners :
                        \A other \in miners : get_election_result(claim, seed)
                                                <= get_election_result(other, seed) }
        IN  /\ \A claim \in miners : \E k \in DOMAIN election_results : election_results[k] = claim
            /\ \A claim \in least : events[1].winner[2].hash <= claim.hash

(* C20: a well-formed MinerElection over a store with no Miner-eligible    *)
(* claim is handled to its end.                                            *)
C20_NoMinerTerminates ==
    (/\ pc = "handle"
     /\ actor = "MinerElection"
     /\ input.kind = "MinerElection"
     /\ IsSome(from_slice(input.header_bytes))
     /\ \A i \in 1..Len(claim_store) : claim_store[i].eligibility # "Miner")
        ~> (pc = "done")

(* C21: an event of the actor's kind whose bytes are no block header, and  *)
(* an event of any other kind, is dropped: nothing is sent, the handler    *)
(* runs no election and takes no further step, and it returns Running.     *)
C21_MalformedDropped ==
    (\/ \A h \in [block_seed : Seeds, next_block_seed : Seeds, block_height : {0, 1}] :
            input.header_bytes # header_json(h)
     \/ input.kind # actor) =>
        /\ events = <<>>
        /\ election_results = <<>>
        /\ pc \in {"handle", "done"}
        /\ pc = "done" => result = "Running"

(* The quorum actor dropped a QuorumElection whose bytes are cut short. *)
C21_Witness ==
    /\ pc = "done"
    /\ actor = "QuorumElection"
    /\ input = [kind |-> "QuorumElection", header_bytes |-> "{"]
    /\ events = <<>>
    /\ result = "Running"

(* C22: elect_quorum reports InvalidSeedError exactly when the builder     *)
(* cannot be seeded from the header's next_block_seed and block_height.    *)
C22_InvalidSeedIffUnseeded ==
    (pc = "send_quorum") =>
        LET header == Unwrap(from_slice(input.header_bytes))
        IN  (election_results = [ok |-> FALSE, err |-> "InvalidSeedError"])
                <=> ~Quorum_new(header.next_block_seed, header.block_height).ok

(* C23: no vote of a Votes result is on a txn whose validation outcome    *)
(* in the job was a failure.                                               *)
C23_VotesOnlyForValidated ==
    \A i \in 1..Len(handled) :
        (handled[i].job.kind = "Farm" /\ handled[i].completed) =>
            LET out == sync_jobs_outputs[handled[i].outputs]
            IN  \A k \in 1..Len(out.votes) :
                    IsSome(out.votes[k]) =>
                        \A j \in 1..Len(handled[i].validated_txns) :
                            handled[i].validated_txns[j][1] = Unwrap(out.votes[k]).txn
                                => handled[i].validated_txns[j][2] = "Ok"

(* C24: a Farm job whose pool job completed sent exactly one result, a     *)
(* Votes with the job's farmer_quorum_threshold and one entry per entry    *)
(* validation returned; the entry is None exactly when serializing or      *)
(* signing that txn failed, and is a vote on that txn otherwise.  A Farm   *)
(* job whose pool job did not complete sent nothing.                       *)
C24_OneVotesPerFarm ==
    \A i \in 1..Len(handled) :
        handled[i].job.kind = "Farm" =>
            LET job == handled[i].job
                validated_txns == handled[i].validated_txns
                before == IF i = 1 THEN 0 ELSE handled[i - 1].outputs
                out == sync_jobs_outputs[handled[i].outputs]
                fails(txn) ==
                    \/ bincode_serialize(txn) = None
                    \/ generate_partial_signature(job.sig_provider,
                                                  Unwrap(bincode_serialize(txn))) = None
            IN  IF handled[i].completed
                THEN /\ handled[i].outputs = before + 1
                     /\ out.kind = "Votes"
                     /\ out.threshold = job.farmer_quorum_threshold
                     /\ Len(out.votes) = Cardinality(validate(state_snapshot, job.txns))
                     /\ Len(out.votes) = Len(validated_txns)
                     /\ \A k \in 1..Len(out.votes) :
                            /\ out.votes[k] = None <=> fails(validated_txns[k][1])
                            /\ IsSome(out.votes[k]) =>
                                  Unwrap(out.votes[k]).txn = validated_txns[k][1]
                ELSE handled[i].outputs = before

(* A Votes result with a hole before a vote. *)
C24_Witness ==
    \E i \in 1..Len(handled) :
        /\ handled[i].job.kind = "Farm"
        /\ handled[i].completed
        /\ LET out == sync_jobs_outputs[handled[i].outputs]
           IN  /\ Len(out.votes) = 2
               /\ out.votes[1] = None
               /\ IsSome(out.votes[2])

(* C25: a CertifyTxn job sent a CertifiedTxn only if the validation of its *)
(* txn succeeded.                                                          *)
C25_CertifiedOnlyIfValidated ==
    \A i \in 1..Len(handled) :
        (/\ handled[i].job.kind = "CertifyTxn"
         /\ handled[i].outputs = (IF i = 1 THEN 0 ELSE handled[i - 1].outputs) + 1) =>
            <<handled[i].job.txn, "Ok">> \in handled[i].validated_txns

(* C26: the parallel work of a Farm job is not enqueued on the pool when   *)
(* the backpressure sampled for it was the highest there is, every other   *)
(* job of the producer waiting in the channel.                             *)
C26_BackpressureDecidesAdmission ==
    \A i \in 1..Len(handled) :
        (handled[i].job.kind = "Farm" /\ handled[i].backpressure = MaxJobs - 1) =>
            ~handled[i].enqueued

(* C27: once the Part and Ack phases of the session are complete, the      *)
(* part_message_store of every engine holds the Parts of the n - 1 other   *)
(* engines and not its own, and its ack_message_store holds n * (n - 1)    *)
(* Acks, one per pair of a sender and another engine that acknowledged it. *)
C27_StoresAfterPartAndAck ==
    LET n == valid_threshold_config.upper_bound
    IN  pc \in {"keys", "done"} =>
            \A i \in DOMAIN dkg_engines :
                /\ DOMAIN dkg_engines[i].part_message_store = (0..(n - 1)) \ {i}
                /\ \A j \in DOMAIN dkg_engines[i].part_message_store :
                       dkg_engines[i].part_message_store[j].author = j
                /\ Cardinality(DOMAIN dkg_engines[i].part_message_store) + 1 = n
                /\ DOMAIN dkg_engines[i].ack_message_store =
                       { k \in (0..(n - 1)) \X (0..(n - 1)) : k[1] # k[2] }
                /\ Cardinality(DOMAIN dkg_engines[i].ack_message_store) = n * (n - 1)

(* The session of four engines is through its Ack phase. *)
C27_Witness ==
    /\ pc = "keys"
    /\ Cardinality(DOMAIN dkg_engines) = 4
    /\ Cardinality(DOMAIN dkg_engines[0].ack_message_store) = 12
    /\ Cardinality(DOMAIN dkg_engines[3].part_message_store) = 3

C30_AbsorbConverges ==
    (pc = "idle" /\ \A rd \in Readers : readers[rd].held = 0) =>
        LET w == 3 - lrdb.r
            behind == lrdb.copies[w]
            ahead == lrdb.copies[lrdb.r]
        IN  /\ \A txn \in MempoolTxns, kind \in {"Add", "Remove"} :
                    LET op == [kind |-> kind, rec |-> TxnRecord_new(txn, now)]
                        after == absorb_first(behind, op)
                    IN  /\ after = absorb_second(behind, op)
                        /\ DOMAIN after = IF kind = "Add"
                                          THEN DOMAIN behind \cup {op.rec.txn_id}
                                          ELSE DOMAIN behind \ {op.rec.txn_id}
                        /\ kind = "Add" => after[op.rec.txn_id] = op.rec
                        /\ \A id \in DOMAIN after \ {op.rec.txn_id} : after[id] = behind[id]
            /\ IF lrdb.first THEN behind = ahead
               ELSE IF lrdb.second THEN sync_with(behind, ahead) = ahead
               ELSE absorb_all(behind, lrdb.oplog, lrdb.swap_index, 1) = ahead
            /\ \A k \in 1..Len(published) :
                    /\ sync_with(behind, published[k]) = published[k]
                    /\ sync_with(published[k], behind) = behind

(* The copy behind the read pointer lags by a removal: it still holds a    *)
(* record the other copy has lost, and the oplog holds what it has missed. *)
C30_Witness ==
    /\ pc = "idle"
    /\ \A rd \in Readers : readers[rd].held = 0
    /\ ~lrdb.first /\ ~lrdb.second
    /\ lrdb.oplog # <<>>
    /\ \E id \in DOMAIN lrdb.copies[3 - lrdb.r] : id \notin DOMAIN lrdb.copies[lrdb.r]

(* C31: the store that add_txn_batch or remove_txn_batch leaves is a       *)
(* function of the batch the caller supplied: when the call in progress    *)
(* has been handed a set of txns, the store its publish shows is the same  *)
(* in whichever order the set is iterated.                                 *)
C31_BatchDeterministic ==
    (pc = "call" /\ \A rd \in Readers : readers[rd].held = 0) =>
        \A supplied \in Batches, iterated \in Batches :
            {supplied[i] : i \in 1..Len(supplied)} = {iterated[i] : i \in 1..Len(iterated)} =>
                /\ input = add_txn_batch(supplied, now) =>
                        get(call(lrdb, add_txn_batch(iterated, now))) = get(call(lrdb, input))
                /\ input = remove_txn_batch(supplied, now) =>
                        get(call(lrdb, remove_txn_batch(iterated, now))) = get(call(lrdb, input))

(* C34: a genesis txn with no validators never causes InvalidTxns: a       *)
(* genesis block answered InvalidTxns has a txn with at least one          *)
(* validator and fewer than 0.60 of them voting true, and a genesis block  *)
(* that passes the header checks and holds only txns without validators    *)
(* is accepted.                                                            *)
C34_EmptyValidatorsAccepted ==
    pc = "done" =>
        /\ result = "InvalidTxns" =>
                \E i \in 1..Len(block.txns) :
                    /\ block.txns[i].validators # <<>>
                    /\ approvals(block.txns[i]) * 5 < 3 * Len(block.txns[i].validators)
        /\ ( /\ genesis_header_faults(block, reward_state) = {}
             /\ \A i \in 1..Len(block.txns) : block.txns[i].validators = <<>> )
                => result = "ok"

(* A genesis block of two txns, neither with a validator, accepted. *)
C34_Witness ==
    /\ pc = "done"
    /\ Len(block.txns) = 2
    /\ \A i \in 1..Len(block.txns) : block.txns[i].validators = <<>>
    /\ genesis_header_faults(block, reward_state) = {}
    /\ result = "ok"

(* C35: every vote a Farm job produced carries the job's parameters: its   *)
(* farmer_id is the job's receiver_farmer_id, its farmer_node_id and       *)
(* quorum_public_key are the job's, and its quorum_threshold is the job's  *)
(* farmer_quorum_threshold, the threshold sent next to the vote list.      *)
C35_VotesCarryJobParameters ==
    \A k \in 1..Len(handled) :
        (handled[k].job.kind = "Farm" /\ handled[k].completed) =>
            LET job == handled[k].job
                out == sync_jobs_outputs[handled[k].outputs]
            IN  /\ out.kind = "Votes"
                /\ out.threshold = job.farmer_quorum_threshold
                /\ \A i \in 1..Len(out.votes) :
                        IsSome(out.votes[i]) =>
                            LET vote == Unwrap(out.votes[i])
                            IN  /\ vote.farmer_id = job.receiver_farmer_id
                                /\ vote.farmer_node_id = job.farmer_node_id
                                /\ vote.quorum_public_key = job.quorum_public_key
                                /\ vote.quorum_threshold = job.farmer_quorum_threshold
                                /\ vote.quorum_threshold = out.threshold

(* C32: a job placed on sync_jobs or on async_jobs is eventually taken,    *)
(* the jobs of the sync queue are handled in the order received with each  *)
(* result on sync_jobs_outputs, and no result of a sync job is sent on     *)
(* async_jobs_outputs.                                                     *)
C32_BothQueuesServed ==
    /\ (sync_jobs # <<>>) ~> (sync_jobs = <<>>)
    /\ (async_jobs # <<>>) ~> (async_jobs = <<>>)
    /\ [][ /\ handled' # handled
               => /\ handled' = Append(handled, handled'[Len(handled')])
                  /\ handled'[Len(handled')].job =
                        IF local # <<>> THEN local.job ELSE Head(sync_jobs)
           /\ (local = <<>> /\ local' # <<>>) => local'.job = Head(sync_jobs)
           /\ sync_jobs_outputs' # sync_jobs_outputs => handled' # handled
           /\ async_jobs_outputs' = async_jobs_outputs \/ async_jobs' = Tail(async_jobs) ]_vars

(* C33: the phases of a session are ordered.  An Ack under (sender, acker) *)
(* exists only for a Part that is in the acker's part_message_store, never *)
(* for the acker's own index, and it is produced by the acker while it     *)
(* holds that Part; public_key_set and secret_key_share are unset until    *)
(* key-set generation, which sets them in the step after every engine      *)
(* holds all the n * (n - 1) Acks.                                         *)
C33_PhasesOrdered ==
    /\ [](\A i \in DOMAIN dkg_engines :
            /\ \A k \in DOMAIN dkg_engines[i].ack_message_store :
                    /\ k[1] # k[2]
                    /\ k[1] \in DOMAIN dkg_engines[k[2]].part_message_store
                    /\ dkg_engines[i].ack_message_store[k]
                            = dkg_engines[k[2]].part_message_store[k[1]]
            /\ pc # "done" => /\ dkg_engines[i].public_key_set = None
                              /\ dkg_engines[i].secret_key_share = None)
    /\ [][\A i \in DOMAIN dkg_engines :
            /\ pc = "ack" =>
                    \A k \in DOMAIN dkg_engines'[i].ack_message_store
                                \ DOMAIN dkg_engines[i].ack_message_store :
                        /\ k = <<local.i, i>>
                        /\ local.i \in DOMAIN dkg_engines[i].part_message_store
            /\ (IsSome(dkg_engines'[i].public_key_set) \/ IsSome(dkg_engines'[i].secret_key_share))
                    => /\ pc = "keys"
                       /\ \A j \in DOMAIN dkg_engines :
                            Cardinality(DOMAIN dkg_engines[j].ack_message_store)
                                = valid_threshold_config.upper_bound
                                    * (valid_threshold_config.upper_bound - 1)]_vars

(* The session is through key-set generation: every engine has its key set *)
(* and share, and none holds an Ack of an engine for its own Part.         *)
C33_Witness ==
    /\ pc = "done"
    /\ \A i \in DOMAIN dkg_engines :
            /\ IsSome(dkg_engines[i].public_key_set)
            /\ IsSome(dkg_engines[i].secret_key_share)
            /\ <<i, i>> \notin DOMAIN dkg_engines[i].ack_message_store
            /\ i \notin DOMAIN dkg_engines[i].part_message_store

====
